---- MODULE Spec2Model ----
(***************************************************************************)
(* Inventory reconciliation run of the Shopify inventory uploader:         *)
(* ExcelService.parseInventoryRows, InventoryService.processUpload with    *)
(* deduplicateRows, prefetchVariantsByIdentifier, resolveVariant,          *)
(* processRow and resolveLocationForRow, against a model of the remote     *)
(* shop (catalog, locations, inventory levels).                            *)
(*                                                                         *)
(* Strings are sequences of one-character strings, so that trim() and      *)
(* toLowerCase() are computed.  Numbers of the sheet are kept in tenths    *)
(* (fixed point), so that Math.round is computed.                          *)
(***************************************************************************)
EXTENDS Integers, Sequences, FiniteSets, TLC

VARIABLES
    file,            \* rows of the first sheet as sheet_to_json returns them
    batchSize,       \* APP_CONFIG.batchSize of this deployment
    shopLocations,   \* remote: the shop's locations, in the order the API lists them
    shop,            \* remote: inventory level of (item, location), NoQty when none
    phase,           \* where processUpload stands
    summary,         \* InventorySyncSummary {updated, failed, skipped}
    parsedRows,      \* parseInventoryRows(...).parsedRows
    dedupedRows,     \* result of deduplicateRows
    locations,       \* result of getLocations()
    uniqueRows,      \* prefetch: one representative row per identity key
    variantByIdentifier, \* prefetch: Map key -> VariantResolution, as a set of entries
    batchNo,         \* index of the batch in flight (prefetch or processing)
    lookupStage,     \* prefetch: per unique row, the lookup resolveVariant awaits
    rowState,        \* processing: per deduplicated row, the remote call processRow
                     \* awaits, its resolved location, the quantity read, its result
    resolveCalls,    \* history: identity keys resolveVariant was called with, in order
    setCalls,        \* history: every setInventory call that completed
    faults,          \* history: number of remote calls that failed so far
    rowFault,        \* history: per deduplicated row, whether one of its remote calls failed
    refShop,         \* reference run (same schedule, no processRow error): its shop
    refRow,          \* reference run: per row its stage, location, quantity read, result
    run,             \* 1 for the first upload of the file, 2 for the re-run
    firstSummary,    \* summary the first run returned (set when the re-run starts)
    defaultLocationName, \* APP_CONFIG.shopify.defaultLocationName of this deployment
    lookupCalls,     \* history: per unique row, the lookups resolveVariant issued, in order
    rowCalls,        \* history: per deduplicated row, the remote calls processRow issued
    titleSearch,     \* getVariantsByTitle: the title, the products of the payload, the ranking
    retry,           \* withRetry: its configuration, attempt, waits, caught errors and outcome
    sheetNames       \* workbook.SheetNames.length of the upload: 0 when it has no sheet

vars == <<file, batchSize, shopLocations, shop, phase, summary, parsedRows, dedupedRows,
          locations, uniqueRows, variantByIdentifier, batchNo, lookupStage, rowState,
          resolveCalls, setCalls, faults, rowFault,
          refShop, refRow, run, firstSummary, defaultLocationName, lookupCalls, rowCalls,
          titleSearch, retry, sheetNames>>

(***************************************************************************)
(* Bounds of the model.                                                    *)
(***************************************************************************)
MaxRows == 3        \* rows in the uploaded sheet
MaxBatchSize == 2   \* configured batch sizes explored: 1..MaxBatchSize
MaxFaults == 1      \* remote calls that may fail in one run
MaxLookupRows == 2  \* rows in a sheet of the lookup runs (SpecLookup)
MaxLocationRows == 2 \* rows in a sheet of the location runs (SpecLocation)
MaxRetries == 3     \* configured maxRetries explored: 0..MaxRetries (SpecRetry)
MaxBaseDelay == 2   \* configured retryBaseDelayMs explored: 1..MaxBaseDelay (SpecRetry)
MaxLiveRows == 2    \* rows in a sheet of the runs under fairness (SpecLive)

NoQty == 0 - 1      \* null quantity (no inventory level / no number)

(***************************************************************************)
(* String helpers: String.prototype.trim and toLowerCase on the model's    *)
(* alphabet.                                                               *)
(***************************************************************************)
LowerChar(c) ==
    CASE c = "A" -> "a"
      [] c = "B" -> "b"
      [] c = "C" -> "c"
      [] c = "D" -> "d"
      [] c = "E" -> "e"
      [] c = "F" -> "f"
      [] c = "G" -> "g"
      [] c = "H" -> "h"
      [] c = "I" -> "i"
      [] c = "J" -> "j"
      [] c = "K" -> "k"
      [] c = "L" -> "l"
      [] c = "M" -> "m"
      [] c = "N" -> "n"
      [] c = "O" -> "o"
      [] c = "P" -> "p"
      [] c = "Q" -> "q"
      [] c = "R" -> "r"
      [] c = "S" -> "s"
      [] c = "T" -> "t"
      [] c = "U" -> "u"
      [] c = "V" -> "v"
      [] c = "W" -> "w"
      [] c = "X" -> "x"
      [] c = "Y" -> "y"
      [] c = "Z" -> "z"
      [] OTHER -> c

ToLowerCase(s) == [i \in 1..Len(s) |-> LowerChar(s[i])]

RECURSIVE TrimLeft(_)
TrimLeft(s) == IF s # <<>> /\ Head(s) = " " THEN TrimLeft(Tail(s)) ELSE s

RECURSIVE TrimRight(_)
TrimRight(s) ==
    IF s # <<>> /\ s[Len(s)] = " " THEN TrimRight(SubSeq(s, 1, Len(s) - 1)) ELSE s

Trim(s) == TrimRight(TrimLeft(s))

\* value.trim().toLowerCase()
normalized(value) == ToLowerCase(Trim(value))

\* Array.prototype.join(sep) on an array of strings
RECURSIVE Join(_, _)
Join(strs, sep) ==
    IF strs = <<>> THEN <<>>
    ELSE IF Len(strs) = 1 THEN strs[1]
    ELSE strs[1] \o sep \o Join(Tail(strs), sep)

\* elements of a sequence, as a set
Range(s) == {s[i] : i \in 1..Len(s)}

(***************************************************************************)
(* ExcelService: header aliases (already trimmed and lower-cased, as       *)
(* getValue compares them), cell parsing and the quantity decision.        *)
(***************************************************************************)
Columns ==
    [sku |-> <<"sku", "variant sku">>,
     itemCode |-> <<"item code", "item code_new">>,
     handle |-> <<"handle">>,
     title |-> <<"title", "item name">>,
     barcode |-> <<"variant barcode", "barcode", "barcode value", "ean code">>,
     optionValue |->
        <<"option1 value", "option1 value", "option2 value", "option2 value",
          "option3 value", "option3 value", "size", "size", "colour", "colour",
          "color", "color">>,
     closingStock |->
        <<"closing stock", "closing stock on qty", "on hand (new)",
          "available (not editable)", "quantity", "variant inventory qty">>,
     openingStock |->
        <<"opening stock", "opening stock qty", "on hand (current)", "available">>,
     stockMovement |-> <<"stock movement", "movement", "net movement", "adjustment">>,
     inward |-> <<"inward stock", "received qty">>,
     outward |-> <<"out qty", "sold qty">>,
     location |->
        <<"shopifylocationname", "location", "location name", "inventory location">>,
     bin |-> <<"bin name", "bin">>]

\* A cell is a number [t |-> "num", tenths |-> n] or a text [t |-> "str", s |-> chars].
NumCell(n) == [t |-> "num", tenths |-> n * 10, s |-> <<>>]
StrCell(s) == [t |-> "str", tenths |-> 0, s |-> s]

\* getValue: the cell of the first alias that is a header of the row, '' when none is
RECURSIVE getValue(_, _)
getValue(row, keys) ==
    IF keys = <<>> THEN StrCell(<<>>)
    ELSE IF Head(keys) \in DOMAIN row THEN row[Head(keys)]
    ELSE getValue(row, Tail(keys))

Digits == {"0", "1", "2", "3", "4", "5", "6", "7", "8", "9"}

DigitValue(c) ==
    CASE c = "0" -> 0 [] c = "1" -> 1 [] c = "2" -> 2 [] c = "3" -> 3 [] c = "4" -> 4
      [] c = "5" -> 5 [] c = "6" -> 6 [] c = "7" -> 7 [] c = "8" -> 8 [] c = "9" -> 9
      [] OTHER -> 0

\* String(number) for the numbers of the model: integers, as decimal digits
RECURSIVE NatToString(_)
NatToString(n) ==
    LET d == <<"0", "1", "2", "3", "4", "5", "6", "7", "8", "9">>[(n % 10) + 1]
    IN IF n < 10 THEN <<d>> ELSE NatToString(n \div 10) \o <<d>>

\* getString: String(value) of getValue
getString(row, keys) ==
    LET value == getValue(row, keys)
    IN IF value.t = "str" THEN value.s
       ELSE IF value.tenths < 0 THEN <<"-">> \o NatToString((0 - value.tenths) \div 10)
       ELSE NatToString(value.tenths \div 10)

\* Number(text) for texts of the form [-]digits[.digit]; NoNumber (NaN) otherwise.
\* The result is in tenths.
NoNumber == [ok |-> FALSE, tenths |-> 0]
SomeNumber(n) == [ok |-> TRUE, tenths |-> n]

RECURSIVE DigitsValue(_)
DigitsValue(s) ==
    IF s = <<>> THEN 0 ELSE DigitsValue(SubSeq(s, 1, Len(s) - 1)) * 10 + DigitValue(s[Len(s)])

AllDigits(s) == \A i \in 1..Len(s) : s[i] \in Digits

UnsignedNumber(s) ==
    IF s # <<>> /\ AllDigits(s) THEN SomeNumber(DigitsValue(s) * 10)
    ELSE IF Len(s) >= 3 /\ s[Len(s) - 1] = "." /\ AllDigits(SubSeq(s, 1, Len(s) - 2))
            /\ s[Len(s)] \in Digits
         THEN SomeNumber(DigitsValue(SubSeq(s, 1, Len(s) - 2)) * 10 + DigitValue(s[Len(s)]))
    ELSE NoNumber

NumberOf(s) ==
    IF s # <<>> /\ Head(s) = "-"
    THEN LET u == UnsignedNumber(Tail(s))
         IN IF u.ok THEN SomeNumber(0 - u.tenths) ELSE NoNumber
    ELSE UnsignedNumber(s)

EmptyTokens ==
    { <<"n", "o", "t", " ", "s", "t", "o", "c", "k", "e", "d">>,
      <<"n", "/", "a">>, <<"n", "a">>, <<"n", "o", "n", "e">>,
      <<"n", "u", "l", "l">>, <<"-">> }

\* faulty variant of parseText: a recognized empty token is no number
parseTextTokensAbsent(raw) ==
    IF raw = <<>> THEN NoNumber
    ELSE NumberOf(SelectSeq(raw, LAMBDA c : c # ","))

\* parseQuantity of a text already trimmed; Number(raw.replace(/,/g, ''))
parseText(raw) ==
    IF raw = <<>> THEN NoNumber
    ELSE IF ToLowerCase(raw) \in EmptyTokens THEN SomeNumber(0)
    ELSE NumberOf(SelectSeq(raw, LAMBDA c : c # ","))

\* parseQuantity: number | null, in tenths
parseQuantity(value) ==
    IF value.t = "num" THEN SomeNumber(value.tenths) ELSE parseText(Trim(value.s))

\* Math.round of a number in tenths: the nearest integer, halves towards +infinity
MathRound(tenths) == (tenths + 5) \div 10

\* Math.max(0, Math.round(value))
roundedQuantity(tenths) == IF MathRound(tenths) < 0 THEN 0 ELSE MathRound(tenths)

\* inward ?? 0
orZero(n) == IF n.ok THEN n.tenths ELSE 0

\* faulty variant of quantityDecision: inward and outward are looked at before
\* the movement
quantityDecisionInwardFirst(closing, opening, movement, inward, outward) ==
    IF closing.ok
    THEN [quantity |-> roundedQuantity(closing.tenths),
          source |-> "closing_stock_direct"]
    ELSE IF opening.ok /\ (inward.ok \/ outward.ok)
    THEN [quantity |-> roundedQuantity(opening.tenths + orZero(inward) - orZero(outward)),
          source |-> "opening_plus_inward_minus_outward"]
    ELSE IF opening.ok /\ movement.ok
    THEN [quantity |-> roundedQuantity(opening.tenths + movement.tenths),
          source |-> "opening_plus_movement"]
    ELSE IF opening.ok
    THEN [quantity |-> roundedQuantity(opening.tenths),
          source |-> "opening_stock_fallback"]
    ELSE [quantity |-> NoQty, source |-> "missing_stock_fields"]

\* resolveQuantity on the parsed cells: {quantity | null, source}
quantityDecision(closing, opening, movement, inward, outward) ==
    IF closing.ok
    THEN [quantity |-> roundedQuantity(closing.tenths),
          source |-> "closing_stock_direct"]
    ELSE IF opening.ok /\ movement.ok
    THEN [quantity |-> roundedQuantity(opening.tenths + movement.tenths),
          source |-> "opening_plus_movement"]
    ELSE IF opening.ok /\ (inward.ok \/ outward.ok)
    THEN [quantity |-> roundedQuantity(opening.tenths + orZero(inward) - orZero(outward)),
          source |-> "opening_plus_inward_minus_outward"]
    ELSE IF opening.ok
    THEN [quantity |-> roundedQuantity(opening.tenths),
          source |-> "opening_stock_fallback"]
    ELSE [quantity |-> NoQty, source |-> "missing_stock_fields"]

resolveQuantity(row) ==
    quantityDecision(parseQuantity(getValue(row, Columns.closingStock)),
                     parseQuantity(getValue(row, Columns.openingStock)),
                     parseQuantity(getValue(row, Columns.stockMovement)),
                     parseQuantity(getValue(row, Columns.inward)),
                     parseQuantity(getValue(row, Columns.outward)))

(***************************************************************************)
(* ResultRow and its reasons.  A reason is a message with its parameters:  *)
(* the conflicting row numbers, or the previous quantity.                  *)
(***************************************************************************)
Reason(msg, rows, previous, text) ==
    [msg |-> msg, rows |-> rows, previous |-> previous, text |-> text]

\* a reason that is a fixed message
Message(msg) == Reason(msg, <<>>, NoQty, <<>>)

ResultRow(rowNumber, sku, itemName, locationName, quantity, reason, calculationSource) ==
    [rowNumber |-> rowNumber, sku |-> sku, itemName |-> itemName,
     locationName |-> locationName, quantity |-> quantity, reason |-> reason,
     calculationSource |-> calculationSource]

\* the ResultRow of a parsed row with a given reported sku and location name
RowResult(row, sku, locationName, reason) ==
    ResultRow(row.rowNumber, sku, row.title, locationName, row.quantity, reason,
              row.calculationSource)

(***************************************************************************)
(* parseInventoryRows: one raw row -> a parsed row or a skip record.       *)
(***************************************************************************)
optionValuesOf(rawRow) ==
    SelectSeq([i \in 1..Len(Columns.optionValue) |->
                  Trim(getString(rawRow, <<Columns.optionValue[i]>>))],
              LAMBDA value : value # <<>>)

\* the identifiers, location and bin of a raw row, trimmed
rowFields(rawRow) ==
    [sku |-> Trim(getString(rawRow, Columns.sku)),
     itemCode |-> Trim(getString(rawRow, Columns.itemCode)),
     handle |-> Trim(getString(rawRow, Columns.handle)),
     title |-> Trim(getString(rawRow, Columns.title)),
     variantBarcode |-> Trim(getString(rawRow, Columns.barcode)),
     optionValues |-> optionValuesOf(rawRow),
     shopifyLocationName |-> Trim(getString(rawRow, Columns.location)),
     binName |-> Trim(getString(rawRow, Columns.bin))]

skipRecord(rowNumber, f, quantity, reason, source) ==
    [parsed |-> FALSE,
     row |-> ResultRow(rowNumber, f.sku, f.title, f.shopifyLocationName, quantity,
                       Message(reason), source)]

\* faulty variant of classifyRow: a missing quantity counts as 0
classifyRowMissingAsZero(rowNumber, f, decision) ==
    IF f.sku = <<>> /\ f.itemCode = <<>> /\ f.handle = <<>> /\ f.variantBarcode = <<>>
       /\ f.title = <<>>
    THEN skipRecord(rowNumber, f, IF decision.quantity = NoQty THEN 0 ELSE decision.quantity,
                    "Missing identifiers", "undefined")
    ELSE [parsed |-> TRUE,
          row |-> [rowNumber |-> rowNumber, sku |-> f.sku, itemCode |-> f.itemCode,
                   handle |-> f.handle, variantBarcode |-> f.variantBarcode,
                   title |-> f.title, optionValues |-> f.optionValues,
                   quantity |-> IF decision.quantity = NoQty THEN 0 ELSE decision.quantity,
                   calculationSource |-> decision.source,
                   shopifyLocationName |-> f.shopifyLocationName, binName |-> f.binName]]

\* faulty variant of classifyRow: the quantity is looked at before the identifiers
classifyRowQuantityFirst(rowNumber, f, decision) ==
    IF decision.quantity = NoQty
    THEN skipRecord(rowNumber, f, 0, "Missing stock values", decision.source)
    ELSE IF f.sku = <<>> /\ f.itemCode = <<>> /\ f.handle = <<>> /\ f.variantBarcode = <<>>
            /\ f.title = <<>>
    THEN skipRecord(rowNumber, f, decision.quantity, "Missing identifiers", "undefined")
    ELSE [parsed |-> TRUE,
          row |-> [rowNumber |-> rowNumber, sku |-> f.sku, itemCode |-> f.itemCode,
                   handle |-> f.handle, variantBarcode |-> f.variantBarcode,
                   title |-> f.title, optionValues |-> f.optionValues,
                   quantity |-> decision.quantity,
                   calculationSource |-> decision.source,
                   shopifyLocationName |-> f.shopifyLocationName, binName |-> f.binName]]

\* the body of rows.forEach, on the row's fields f and its quantity decision
classifyRow(rowNumber, f, decision) ==
    IF f.sku = <<>> /\ f.itemCode = <<>> /\ f.handle = <<>> /\ f.variantBarcode = <<>>
       /\ f.title = <<>>
    THEN skipRecord(rowNumber, f, IF decision.quantity = NoQty THEN 0 ELSE decision.quantity,
                    "Missing identifiers", "undefined")
    ELSE IF decision.quantity = NoQty
    THEN skipRecord(rowNumber, f, 0, "Missing stock values", decision.source)
    ELSE IF decision.quantity < 0
    THEN skipRecord(rowNumber, f, decision.quantity,
                    "Quantity must be a non-negative integer", decision.source)
    ELSE [parsed |-> TRUE,
          row |-> [rowNumber |-> rowNumber, sku |-> f.sku, itemCode |-> f.itemCode,
                   handle |-> f.handle, variantBarcode |-> f.variantBarcode,
                   title |-> f.title, optionValues |-> f.optionValues,
                   quantity |-> decision.quantity,
                   calculationSource |-> decision.source,
                   shopifyLocationName |-> f.shopifyLocationName, binName |-> f.binName]]

parseRow(rawRow, rowNumber) == classifyRow(rowNumber, rowFields(rawRow), resolveQuantity(rawRow))

\* the rows of a sequence of outcomes
rowsOf(outcomes) == [j \in 1..Len(outcomes) |-> outcomes[j].row]

\* {parsedRows, skippedRows}, each in sheet order
splitOutcomes(outcomes) ==
    [parsedRows |-> rowsOf(SelectSeq(outcomes, LAMBDA o : o.parsed)),
     skippedRows |-> rowsOf(SelectSeq(outcomes, LAMBDA o : ~o.parsed))]

\* rows.forEach((rawRow, index) => ...): row numbers are index + 2
parseInventoryRows(rows) ==
    splitOutcomes([i \in 1..Len(rows) |-> parseRow(rows[i], i + 1)])

\* the record a workbook without sheets is skipped with
noSheetsRecord ==
    ResultRow(0, <<>>, <<>>, <<>>, 0, Message("Workbook has no sheets"), "undefined")

\* faulty variant of parseWorkbook: a workbook without sheets gives no record
parseWorkbookSilent(sheetCount, rows) ==
    IF sheetCount = 0 THEN [parsedRows |-> <<>>, skippedRows |-> <<>>]
    ELSE parseInventoryRows(rows)

\* parseInventoryRows(buffer): a workbook without sheets gives one skipped
\* record, any other the outcome of the rows of its first sheet
parseWorkbook(sheetCount, rows) ==
    IF sheetCount = 0 THEN [parsedRows |-> <<>>, skippedRows |-> <<noSheetsRecord>>]
    ELSE parseInventoryRows(rows)

(***************************************************************************)
(* InventoryService: identity key, chunking, deduplication.                *)
(***************************************************************************)
\* faulty variant of buildIdentifierKey: the identifiers as the row has them
buildIdentifierKeyAsTyped(row) ==
    <<"sku:">> \o row.sku
    \o <<"|itemcode:">> \o row.itemCode
    \o <<"|barcode:">> \o row.variantBarcode
    \o <<"|handle:">> \o row.handle
    \o <<"|title:">> \o row.title
    \o <<"|opts:">>
    \o Join(row.optionValues, <<"|">>)

buildIdentifierKey(row) ==
    <<"sku:">> \o normalized(row.sku)
    \o <<"|itemcode:">> \o normalized(row.itemCode)
    \o <<"|barcode:">> \o normalized(row.variantBarcode)
    \o <<"|handle:">> \o normalized(row.handle)
    \o <<"|title:">> \o normalized(row.title)
    \o <<"|opts:">>
    \o Join([i \in 1..Len(row.optionValues) |-> normalized(row.optionValues[i])], <<"|">>)

\* key of the groupedByIdentifierAndLocation map
groupKeyOf(row) ==
    buildIdentifierKey(row) \o <<"::">>
    \o (IF row.shopifyLocationName # <<>> THEN ToLowerCase(row.shopifyLocationName)
        ELSE <<"_", "_", "a", "u", "t", "o", "_", "_">>)

\* keys of a Map filled key by key, in insertion order
RECURSIVE KeysInOrder(_, _)
KeysInOrder(keys, seen) ==
    IF keys = <<>> THEN seen
    ELSE KeysInOrder(Tail(keys),
                     IF Head(keys) \in Range(seen) THEN seen ELSE Append(seen, Head(keys)))

\* the group key of every row, in row order
groupKeysOf(rows) == [i \in 1..Len(rows) |-> groupKeyOf(rows[i])]

\* the identity key of every row, in row order
identifierKeysOf(rows) == [i \in 1..Len(rows) |-> buildIdentifierKey(rows[i])]

\* the rows whose key is `key`, in file order; rowKeys[i] is the key of rows[i]
RECURSIVE rowsWithKey(_, _, _)
rowsWithKey(rows, rowKeys, key) ==
    IF rows = <<>> THEN <<>>
    ELSE (IF Head(rowKeys) = key THEN <<Head(rows)>> ELSE <<>>)
         \o rowsWithKey(Tail(rows), Tail(rowKeys), key)

\* chunk(items, size): the batches, as index ranges; batch b holds items
\* (b-1)*safeSize+1 .. min(b*safeSize, length)
safeSizeOf(size) == IF size < 1 THEN 1 ELSE size
chunkCount(n, size) == (n + safeSizeOf(size) - 1) \div safeSizeOf(size)
\* faulty variant of chunkMembers: the slice takes one item more
chunkMembersOneMore(n, size, b) ==
    {i \in 1..n : (b - 1) * safeSizeOf(size) < i /\ i <= b * safeSizeOf(size) + 1}
chunkMembers(n, size, b) ==
    {i \in 1..n : (b - 1) * safeSizeOf(size) < i /\ i <= b * safeSizeOf(size)}

\* faulty variant of SumQuantity: the quantities are taken off the sum
RECURSIVE SumQuantityTakenOff(_)
SumQuantityTakenOff(rows) ==
    IF rows = <<>> THEN 0 ELSE SumQuantityTakenOff(Tail(rows)) - Head(rows).quantity

RECURSIVE SumQuantity(_)
SumQuantity(rows) == IF rows = <<>> THEN 0 ELSE Head(rows).quantity + SumQuantity(Tail(rows))

\* the bins of a group that are not empty, trimmed and lower-cased
normalizedBinsOf(groupRows) ==
    SelectSeq([i \in 1..Len(groupRows) |-> ToLowerCase(Trim(groupRows[i].binName))],
              LAMBDA bin : bin # <<>>)

\* allRowsHaveBin && binsAreUnique
isBinSplit(groupRows) ==
    LET normalizedBins == normalizedBinsOf(groupRows)
        uniqueBins == Range(normalizedBins)
        allRowsHaveBin == Len(normalizedBins) = Len(groupRows)
        binsAreUnique == Cardinality(uniqueBins) = Len(groupRows)
    IN allRowsHaveBin /\ binsAreUnique

\* faulty variant of aggregatedRow: the first row with its own quantity
aggregatedRowUnsummed(groupRows) ==
    [groupRows[1] EXCEPT !.calculationSource = "aggregated_from_bins"]

\* the representative pushed for a bin-split group
aggregatedRow(groupRows) ==
    [groupRows[1] EXCEPT !.quantity = SumQuantity(groupRows),
                         !.calculationSource = "aggregated_from_bins"]

\* faulty variant of aggregatedSkips: a skipped entry for the first row too
aggregatedSkipsEveryRow(groupRows) ==
    [j \in 1..Len(groupRows) |->
        RowResult(groupRows[j], groupRows[j].sku, groupRows[j].shopifyLocationName,
                  Message("Aggregated with other bins for same item/location"))]

\* skipped entries of a bin-split group: every row but the first
aggregatedSkips(groupRows) ==
    [j \in 1..(Len(groupRows) - 1) |->
        RowResult(groupRows[j + 1], groupRows[j + 1].sku,
                  groupRows[j + 1].shopifyLocationName,
                  Message("Aggregated with other bins for same item/location"))]

\* failed entries of a conflicting group: every row, citing all row numbers
conflictFailures(groupRows) ==
    LET rowNumbers == [i \in 1..Len(groupRows) |-> groupRows[i].rowNumber]
    IN [i \in 1..Len(groupRows) |->
           RowResult(groupRows[i], groupRows[i].sku, groupRows[i].shopifyLocationName,
                     Reason("Duplicate item/location in file. Conflicting rows", rowNumbers,
                            NoQty, <<>>))]

\* faulty variant of dedupGroup: of a conflicting group the latest row is kept
dedupGroupKeepsLatest(groupRows) ==
    IF Len(groupRows) = 1
    THEN [unique |-> <<groupRows[1]>>, skipped |-> <<>>, failed |-> <<>>]
    ELSE IF isBinSplit(groupRows)
    THEN [unique |-> <<aggregatedRow(groupRows)>>,
          skipped |-> aggregatedSkips(groupRows), failed |-> <<>>]
    ELSE [unique |-> <<groupRows[Len(groupRows)]>>, skipped |-> <<>>,
          failed |-> SubSeq(conflictFailures(groupRows), 1, Len(groupRows) - 1)]

\* what one group contributes: rows passed on, skipped entries, failed entries
dedupGroup(groupRows) ==
    IF Len(groupRows) = 1
    THEN [unique |-> <<groupRows[1]>>, skipped |-> <<>>, failed |-> <<>>]
    ELSE IF isBinSplit(groupRows)
    THEN [unique |-> <<aggregatedRow(groupRows)>>,
          skipped |-> aggregatedSkips(groupRows), failed |-> <<>>]
    ELSE [unique |-> <<>>, skipped |-> <<>>, failed |-> conflictFailures(groupRows)]

\* acc with the contribution g of one more group
withGroup(acc, g) ==
    [unique |-> acc.unique \o g.unique,
     skipped |-> acc.skipped \o g.skipped,
     failed |-> acc.failed \o g.failed]

\* for (const groupRows of groupedByIdentifierAndLocation.values())
RECURSIVE dedupFold(_, _, _, _)
dedupFold(rows, rowKeys, keys, acc) ==
    IF keys = <<>> THEN acc
    ELSE dedupFold(rows, rowKeys, Tail(keys),
                   withGroup(acc, dedupGroup(rowsWithKey(rows, rowKeys, Head(keys)))))

\* deduplicateRows(rows, summary): the rows passed on and the entries pushed
deduplicateRows(rows) ==
    dedupFold(rows, groupKeysOf(rows), KeysInOrder(groupKeysOf(rows), <<>>),
              [unique |-> <<>>, skipped |-> <<>>, failed |-> <<>>])

\* the last element of a sequence that is not empty
lastOf(seq) == seq[Len(seq)]

\* prefetch: representativeByKey.set(key, row) for every row, then its values:
\* keys in first-insertion order, each with the last row that has the key
representatives(rows, rowKeys, keys) ==
    [i \in 1..Len(keys) |-> lastOf(rowsWithKey(rows, rowKeys, keys[i]))]

\* faulty variant of uniqueRowsOf: every row is its own representative
uniqueRowsOfEveryRow(rows) == rows

uniqueRowsOf(rows) ==
    representatives(rows, identifierKeysOf(rows),
                    KeysInOrder(identifierKeysOf(rows), <<>>))

(***************************************************************************)
(* The remote shop: its catalog is fixed for a run.  A product has a       *)
(* handle, a title and variants; a variant has an inventory item.  The     *)
(* searches of the Admin API match their field exactly, ignoring case.     *)
(***************************************************************************)
Variant(item, sku, barcode, title, options) ==
    [inventoryItemId |-> item, sku |-> sku, barcode |-> barcode, title |-> title,
     selectedOptionValues |-> options]

Catalog ==
    << [handle |-> <<"h">>, title |-> <<"a", " ", "b">>,
        variants |-> << Variant("iX", <<"x">>, <<"7">>, <<"s">>, <<<<"a">>>>),
                        Variant("iW", <<"w">>, <<"9">>, <<"t">>, <<<<"b">>>>) >>],
       [handle |-> <<"g">>, title |-> <<"a", " ", "y">>,
        variants |-> << Variant("iY", <<"y">>, <<"8">>, <<"s">>, <<>>) >>],
       [handle |-> <<"b", "h">>,
        title |-> <<"B", "l", "u", "e", " ", "H", "o", "o", "d", "i", "e">>,
        variants |-> << Variant("iB", <<"b">>, <<"1">>, <<"m">>, <<<<"M">>>>) >>],
       [handle |-> <<"r", "h">>,
        title |-> <<"R", "e", "d", " ", "H", "o", "o", "d", "i", "e">>,
        variants |-> << Variant("iR", <<"r">>, <<"2">>, <<"m">>, <<<<"M">>>>) >>],
       [handle |-> <<"d">>, title |-> <<"a", " ", "b", " ", "c", " ", "d">>,
        variants |-> << Variant("iD", <<"d">>, <<"3">>, <<"s">>, <<>>) >>] >>

Items == {"iX", "iW", "iY", "iB", "iR", "iD"}

\* every variant of the catalog, in catalog order
RECURSIVE AllVariants(_)
AllVariants(products) ==
    IF products = <<>> THEN <<>> ELSE Head(products).variants \o AllVariants(Tail(products))

\* productVariants(first: 1, query: "sku:..."): sku and inventory item of the
\* first variant found, as a sequence of at most one element
getVariantBySku(sku) ==
    LET found == SelectSeq(AllVariants(Catalog),
                           LAMBDA v : ToLowerCase(v.sku) = ToLowerCase(sku))
    IN IF found = <<>> THEN <<>>
       ELSE << Variant(found[1].inventoryItemId, found[1].sku, <<>>, <<>>, <<>>) >>

\* productVariants(first: 1, query: "barcode:...")
getVariantByBarcode(barcode) ==
    LET found == SelectSeq(AllVariants(Catalog),
                           LAMBDA v : ToLowerCase(v.barcode) = ToLowerCase(barcode))
    IN IF found = <<>> THEN <<>> ELSE <<found[1]>>

\* products(first: 1, query: "handle:..."): the variants of the first product
getVariantsByHandle(handle) ==
    LET found == SelectSeq(Catalog, LAMBDA p : ToLowerCase(p.handle) = ToLowerCase(handle))
    IN IF found = <<>> THEN <<>> ELSE found[1].variants

(***************************************************************************)
(* ShopifyService: fuzzy title match.  A score is a fraction num/den.      *)
(***************************************************************************)
\* [a-z0-9]
IsAlnum(c) ==
    c \in Digits \cup
          {"a", "b", "c", "d", "e", "f", "g", "h", "i", "j", "k", "l", "m", "n", "o", "p",
           "q", "r", "s", "t", "u", "v", "w", "x", "y", "z"}

\* collapse runs of spaces into one space
RECURSIVE CollapseSpaces(_)
CollapseSpaces(s) ==
    IF Len(s) < 2 THEN s
    ELSE IF s[1] = " " /\ s[2] = " " THEN CollapseSpaces(Tail(s))
    ELSE <<s[1]>> \o CollapseSpaces(Tail(s))

\* toLowerCase().replace(/[^a-z0-9\s]/g, ' ').replace(/\s+/g, ' ').trim()
normalizeTitle(title) ==
    Trim(CollapseSpaces([i \in 1..Len(title) |->
                            IF IsAlnum(LowerChar(title[i])) THEN LowerChar(title[i]) ELSE " "]))

\* a.split(' ').filter(token => token), as the set of tokens
RECURSIVE TokensOf(_, _)
TokensOf(s, current) ==
    IF s = <<>> THEN (IF current = <<>> THEN {} ELSE {current})
    ELSE IF Head(s) = " "
         THEN (IF current = <<>> THEN {} ELSE {current}) \cup TokensOf(Tail(s), <<>>)
    ELSE TokensOf(Tail(s), Append(current, Head(s)))

\* a score is a fraction [num, den]; a < b
ScoreLess(a, b) == a.num * b.den < b.num * a.den

jaccardTokenSimilarity(a, b) ==
    LET aTokens == TokensOf(a, <<>>)
        bTokens == TokensOf(b, <<>>)
        intersection == Cardinality(aTokens \cap bTokens)
        union == Cardinality(aTokens) + Cardinality(bTokens) - intersection
    IN IF aTokens = {} \/ bTokens = {} THEN [num |-> 0, den |-> 1]
       ELSE IF union = 0 THEN [num |-> 0, den |-> 1]
       ELSE [num |-> intersection, den |-> union]

\* String.prototype.includes
Includes(s, part) ==
    \E i \in 0..(Len(s) - Len(part)) : SubSeq(s, i + 1, i + Len(part)) = part

\* s.slice(0, 10)
Prefix10(s) == SubSeq(s, 1, IF Len(s) < 10 THEN Len(s) ELSE 10)

\* faulty variant of boosted: the sum is not capped
boostedUncapped(jaccard, boost) ==
    [num |-> 100 * jaccard.num + boost * jaccard.den, den |-> 100 * jaccard.den]

\* Math.min(1, jaccard + boost / 100)
boosted(jaccard, boost) ==
    IF 100 * jaccard.num + boost * jaccard.den > 100 * jaccard.den THEN [num |-> 1, den |-> 1]
    ELSE [num |-> 100 * jaccard.num + boost * jaccard.den, den |-> 100 * jaccard.den]

\* faulty variant of similarityOf: an empty text is scored like any other
similarityOfAnyText(left, right) ==
    IF left = right THEN [num |-> 1, den |-> 1]
    ELSE boosted(jaccardTokenSimilarity(left, right),
                 (IF Includes(left, right) \/ Includes(right, left) THEN 22 ELSE 0)
                 + (IF Prefix10(left) = Prefix10(right) THEN 8 ELSE 0))

\* computeTitleSimilarity on the normalized titles
similarityOf(left, right) ==
    IF left = <<>> \/ right = <<>> THEN [num |-> 0, den |-> 1]
    ELSE IF left = right THEN [num |-> 1, den |-> 1]
    ELSE boosted(jaccardTokenSimilarity(left, right),
                 (IF Includes(left, right) \/ Includes(right, left) THEN 22 ELSE 0)
                 + (IF Prefix10(left) = Prefix10(right) THEN 8 ELSE 0))

computeTitleSimilarity(inputTitle, shopifyTitle) ==
    similarityOf(normalizeTitle(inputTitle), normalizeTitle(shopifyTitle))

\* products(first: 10, query: "title:..."): the products the search returns are
\* those sharing a word with the query
searchProductsByTitle(title) ==
    SelectSeq(Catalog,
              LAMBDA p : TokensOf(normalizeTitle(p.title), <<>>)
                           \cap TokensOf(normalizeTitle(title), <<>>) # {})

\* edges.map(edge => ({product, score}))
scoredProducts(title, products) ==
    [i \in 1..Len(products) |->
        [product |-> products[i],
         score |-> computeTitleSimilarity(title, products[i].title)]]

\* one more element put in a list sorted by descending score, after its equals
insertByScore(sorted, e) ==
    SelectSeq(sorted, LAMBDA x : ~ScoreLess(x.score, e.score)) \o <<e>>
    \o SelectSeq(sorted, LAMBDA x : ScoreLess(x.score, e.score))

\* sort((a, b) => b.score - a.score), a stable sort
RECURSIVE sortByScore(_)
sortByScore(items) ==
    IF items = <<>> THEN <<>>
    ELSE insertByScore(sortByScore(SubSeq(items, 1, Len(items) - 1)), items[Len(items)])

\* faulty variant of confidentBest: the lead over the second best is not looked at
confidentBestAnyLead(rankedProducts) ==
    IF rankedProducts = <<>> THEN <<>>
    ELSE IF rankedProducts[1].score.num * 100 < 58 * rankedProducts[1].score.den THEN <<>>
    ELSE rankedProducts[1].product.variants

\* the variants of the best match when it is confident (0.58) and clear of the
\* second best (0.08)
confidentBest(rankedProducts) ==
    IF rankedProducts = <<>> THEN <<>>
    ELSE IF rankedProducts[1].score.num * 100 < 58 * rankedProducts[1].score.den THEN <<>>
    ELSE IF Len(rankedProducts) > 1
            /\ (rankedProducts[1].score.num * rankedProducts[2].score.den
                - rankedProducts[2].score.num * rankedProducts[1].score.den) * 100
               < 8 * rankedProducts[1].score.den * rankedProducts[2].score.den
    THEN <<>>
    ELSE rankedProducts[1].product.variants

\* getVariantsByTitle: the variants of the single confident best match
getVariantsByTitle(title) ==
    confidentBest(sortByScore(scoredProducts(title, searchProductsByTitle(title))))

(***************************************************************************)
(* InventoryService.resolveVariant: the cascade, one remote lookup per     *)
(* stage.  A stage is the lookup the cascade awaits.                       *)
(***************************************************************************)
Resolved(item, sku) ==
    [found |-> TRUE, inventoryItemId |-> item, sku |-> sku, reason |-> Message("")]
Unresolved(reason) ==
    [found |-> FALSE, inventoryItemId |-> "", sku |-> <<>>, reason |-> reason]

\* a || b on strings
OrElse(a, b) == IF a # <<>> THEN a ELSE b

\* the identifiers of the cascade, by the row's field, in the order they are tried
StageOrder == <<"sku", "itemCode", "variantBarcode", "handle", "title">>

\* the first lookup issued at or after position k of the cascade, "none" when
\* the row has no further identifier
RECURSIVE stageFrom(_, _)
stageFrom(row, k) ==
    IF k > Len(StageOrder) THEN "none"
    ELSE IF row[StageOrder[k]] # <<>> THEN StageOrder[k]
    ELSE stageFrom(row, k + 1)

stageIndex(stage) == CHOOSE k \in 1..Len(StageOrder) : StageOrder[k] = stage

\* faulty variant of noMatchingVariant: the resolution fails without a reason
noMatchingVariantNoReason == Unresolved(Message(""))

\* the last return of resolveVariant
noMatchingVariant ==
    Unresolved(Message("No matching variant by SKU, barcode, handle, or title"))

\* resolveVariant returns
finished(resolution) == [done |-> TRUE, resolution |-> resolution, next |-> "done"]

\* falling through after the lookup of `stage` gave nothing: the next lookup,
\* or the final return when the row has no further identifier
fallThrough(row, stage) ==
    IF stageFrom(row, stageIndex(stage) + 1) = "none" THEN finished(noMatchingVariant)
    ELSE [done |-> FALSE, resolution |-> noMatchingVariant,
          next |-> stageFrom(row, stageIndex(stage) + 1)]

matchVariantsByOptions(variants, optionValues) ==
    LET normalizedOptions == {normalized(optionValues[i]) : i \in 1..Len(optionValues)}
        selected(v) == {normalized(v.selectedOptionValues[i]) :
                           i \in 1..Len(v.selectedOptionValues)}
    IN IF optionValues = <<>> THEN variants
       ELSE SelectSeq(variants, LAMBDA v : normalizedOptions \subseteq selected(v))

\* faulty variant of singleLookup: the cascade goes on after a variant is found
singleLookupGoesOn(row, stage, variant, resolvedSku) == fallThrough(row, stage)

\* the sku, item code and barcode lookups: a variant found ends the cascade
singleLookup(row, stage, variant, resolvedSku) ==
    IF variant # <<>>
    THEN finished(Resolved(variant[1].inventoryItemId, OrElse(variant[1].sku, resolvedSku)))
    ELSE fallThrough(row, stage)

\* faulty variant of matchedByTitleOf: no variant is ever told by its title
matchedByTitleOfNone(row, matchedByOptions) == <<>>

\* matchedByOptions.filter(variant => variant.title matches row.title)
matchedByTitleOf(row, matchedByOptions) ==
    IF row.title # <<>>
    THEN SelectSeq(matchedByOptions, LAMBDA v : normalized(v.title) = normalized(row.title))
    ELSE <<>>

handleLookup(row, stage, variants, matchedByOptions) ==
    IF variants = <<>>
    THEN finished(Unresolved(Reason("No product found for handle", <<>>, NoQty, row.handle)))
    ELSE IF Len(matchedByOptions) = 1
    THEN finished(Resolved(matchedByOptions[1].inventoryItemId,
                           OrElse(matchedByOptions[1].sku, row.sku)))
    ELSE IF Len(matchedByOptions) > 1
    THEN IF Len(matchedByTitleOf(row, matchedByOptions)) = 1
         THEN finished(Resolved(matchedByTitleOf(row, matchedByOptions)[1].inventoryItemId,
                                OrElse(matchedByTitleOf(row, matchedByOptions)[1].sku, row.sku)))
         ELSE finished(Unresolved(
                  Reason("Handle matched multiple variants; provide SKU or barcode",
                         <<>>, NoQty, row.handle)))
    ELSE fallThrough(row, stage)

titleLookup(row, stage, variants, matchedByOptions) ==
    IF variants = <<>>
    THEN finished(Unresolved(Reason("No product found for title", <<>>, NoQty, row.title)))
    ELSE IF Len(matchedByOptions) = 1
    THEN finished(Resolved(matchedByOptions[1].inventoryItemId,
                           OrElse(matchedByOptions[1].sku, row.sku)))
    ELSE IF Len(matchedByOptions) > 1
    THEN finished(Unresolved(
             Reason("Title matched multiple variants; provide SKU, barcode, or handle",
                    <<>>, NoQty, row.title)))
    ELSE fallThrough(row, stage)

\* what resolveVariant does when the lookup it awaits at `stage` returns
resolveStep(row, stage) ==
    CASE stage = "sku" -> singleLookup(row, stage, getVariantBySku(row.sku), row.sku)
      [] stage = "itemCode" ->
            singleLookup(row, stage, getVariantBySku(row.itemCode), OrElse(row.sku, row.itemCode))
      [] stage = "variantBarcode" ->
            singleLookup(row, stage, getVariantByBarcode(row.variantBarcode), row.sku)
      [] stage = "handle" ->
            handleLookup(row, stage, getVariantsByHandle(row.handle),
                         matchVariantsByOptions(getVariantsByHandle(row.handle),
                                                row.optionValues))
      [] stage = "title" ->
            titleLookup(row, stage, getVariantsByTitle(row.title),
                        matchVariantsByOptions(getVariantsByTitle(row.title), row.optionValues))

\* getErrorMessage(error) of a failed remote call
remoteErrorMessage == <<"e", "r", "r">>

lookupError == Unresolved(Reason("Lookup error", <<>>, NoQty, remoteErrorMessage))

(***************************************************************************)
(* InventoryService.resolveLocationForRow and processRow, as functions of  *)
(* what the remote calls return.                                           *)
(***************************************************************************)
NoLocation == [id |-> "", name |-> <<>>]

\* buildLocationMap(locations).get(lowerName): the id of the last location of
\* that trimmed lower-cased name, "" when there is none
locationsMapGet(locs, lowerName) ==
    LET named == SelectSeq(locs, LAMBDA l : normalized(l.name) = lowerName)
    IN IF named = <<>> THEN "" ELSE lastOf(named).id

\* locations.find(location => location.id === locationId) || null
locationWithId(locs, locationId) ==
    LET found == SelectSeq(locs, LAMBDA l : l.id = locationId)
    IN IF locationId = "" \/ found = <<>> THEN NoLocation ELSE found[1]

locationByName(locs, lowerName) == locationWithId(locs, locationsMapGet(locs, lowerName))

\* faulty variant of locationFromItemLocations: the first of several locations
\* that hold the item is taken
locationFromItemLocationsFirst(locs, itemLocationIds) ==
    LET match == SelectSeq(locs, LAMBDA l : l.id \in itemLocationIds)
    IN IF match # <<>> THEN match[1]
       ELSE IF normalized(defaultLocationName) # <<>>
       THEN locationByName(locs, normalized(defaultLocationName))
       ELSE NoLocation

\* resolveLocationForRow after getInventoryItemLocationIds returned itemLocationIds
locationFromItemLocations(locs, itemLocationIds) ==
    LET match == SelectSeq(locs, LAMBDA l : l.id \in itemLocationIds)
    IN IF Cardinality(itemLocationIds) = 1 /\ match # <<>> THEN match[1]
       ELSE IF normalized(defaultLocationName) # <<>>
       THEN locationByName(locs, normalized(defaultLocationName))
       ELSE NoLocation

\* the entries processRow returns
failedVariant(row, resolution) ==
    RowResult(row, row.sku, row.shopifyLocationName,
              IF resolution.reason.msg # "" THEN resolution.reason
              ELSE Message("Could not resolve variant in Shopify"))

\* faulty variant of failedLocation: the reason of an unresolved variant
failedLocationAsVariant(row) ==
    RowResult(row, row.sku, row.shopifyLocationName,
              Message("Could not resolve variant in Shopify"))

failedLocation(row) ==
    RowResult(row, row.sku, row.shopifyLocationName,
              Message("Location is ambiguous. Add location in file or set defaultLocationName in config"))

skippedUnchanged(row, variant, location) ==
    RowResult(row, OrElse(row.sku, variant.sku), location.name,
              Message("Inventory already matches target quantity"))

\* faulty variant of updatedRow: the sku of the variant is reported before
\* the row's own
updatedRowVariantSku(row, variant, location, current) ==
    RowResult(row, OrElse(variant.sku, row.sku), location.name,
              IF current = NoQty THEN Message("Inventory created/initialized")
              ELSE Reason("Updated from", <<>>, current, <<>>))

\* faulty variant of updatedRow: the reason never tells a created level
updatedRowAlwaysFrom(row, variant, location, current) ==
    RowResult(row, OrElse(row.sku, variant.sku), location.name,
              Reason("Updated from", <<>>, current, <<>>))

updatedRow(row, variant, location, current) ==
    RowResult(row, OrElse(row.sku, variant.sku), location.name,
              IF current = NoQty THEN Message("Inventory created/initialized")
              ELSE Reason("Updated from", <<>>, current, <<>>))

failedApiError(row, variant) ==
    RowResult(row, OrElse(row.sku, variant.sku), row.shopifyLocationName,
              Reason("Shopify API error", <<>>, NoQty, remoteErrorMessage))

\* faulty variant of isUnchanged: the comparison never succeeds
isUnchangedNever(current, quantity) == current = quantity /\ current # quantity

\* current === row.quantity
isUnchanged(current, quantity) == current = quantity

\* The state of a row of processRow: the remote call it awaits (stage), the
\* location resolved, the quantity read, and what it returned once it is done
RowState(stage, location, current, out) ==
    [stage |-> stage, location |-> location, current |-> current, out |-> out]

PendingRow == RowState("pending", NoLocation, NoQty, <<>>)

\* processRow returns {bucket, payload}
rowDone(location, current, bucket, payload) ==
    RowState("done", location, current, <<[bucket |-> bucket, payload |-> payload]>>)

\* faulty variant of startLocation: a row with a location that is known by
\* its name sets the quantity without reading the current one
startLocationWriting(row, locs, requestedName) ==
    IF requestedName # <<>>
    THEN IF locationByName(locs, ToLowerCase(requestedName)) = NoLocation
         THEN rowDone(NoLocation, NoQty, "failed", failedLocation(row))
         ELSE RowState("set", locationByName(locs, ToLowerCase(requestedName)),
                       NoQty, <<>>)
    ELSE IF Len(locs) = 1 THEN RowState("current", locs[1], NoQty, <<>>)
    ELSE RowState("itemLocs", NoLocation, NoQty, <<>>)

\* resolveLocationForRow up to its remote call, for a row with a resolved variant
startLocation(row, locs, requestedName) ==
    IF requestedName # <<>>
    THEN IF locationByName(locs, ToLowerCase(requestedName)) = NoLocation
         THEN rowDone(NoLocation, NoQty, "failed", failedLocation(row))
         ELSE RowState("current", locationByName(locs, ToLowerCase(requestedName)),
                       NoQty, <<>>)
    ELSE IF Len(locs) = 1 THEN RowState("current", locs[1], NoQty, <<>>)
    ELSE RowState("itemLocs", NoLocation, NoQty, <<>>)

\* processRow up to its first remote call, given variantByIdentifier.get(key)
startResolved(row, resolution, locs) ==
    IF ~resolution.found
    THEN rowDone(NoLocation, NoQty, "failed", failedVariant(row, resolution))
    ELSE startLocation(row, locs, Trim(row.shopifyLocationName))

\* processRow up to its first remote call: the call it awaits, or its result
startRow(row, cache, locs) ==
    startResolved(row,
                  IF buildIdentifierKey(row) \in DOMAIN cache
                  THEN cache[buildIdentifierKey(row)] ELSE Unresolved(Message("")),
                  locs)

(***************************************************************************)
(* The remote inventory levels.                                            *)
(***************************************************************************)
LocationIds == {"L1", "L2"}

\* inventoryItem.inventoryLevel(locationId).quantities[0].quantity, null when none
getCurrentInventory(sh, item, locationId) == sh[<<item, locationId>>]

\* the locations at which the item has an inventory level
getInventoryItemLocationIds(sh, item) == {l \in LocationIds : sh[<<item, l>>] # NoQty}

\* inventorySetQuantities: the level is set (and created when there was none)
setInventory(sh, item, locationId, quantity) == [sh EXCEPT ![<<item, locationId>>] = quantity]

(***************************************************************************)
(* processRow after its first remote call, one awaited call at a time.     *)
(***************************************************************************)
\* the awaited call returns: what processRow does with the answer of shop sh
rowStep(row, variant, rs, sh, locs) ==
    CASE rs.stage = "itemLocs" ->
            LET location == locationFromItemLocations(
                                locs, getInventoryItemLocationIds(sh, variant.inventoryItemId))
            IN [state |-> IF location = NoLocation
                          THEN rowDone(NoLocation, NoQty, "failed", failedLocation(row))
                          ELSE RowState("current", location, NoQty, <<>>),
                shop |-> sh]
      [] rs.stage = "current" ->
            LET current == getCurrentInventory(sh, variant.inventoryItemId, rs.location.id)
            IN [state |-> IF isUnchanged(current, row.quantity)
                          THEN rowDone(rs.location, current, "skipped",
                                       skippedUnchanged(row, variant, rs.location))
                          ELSE RowState("set", rs.location, current, <<>>),
                shop |-> sh]
      [] rs.stage = "set" ->
            [state |-> rowDone(rs.location, rs.current, "updated",
                               updatedRow(row, variant, rs.location, rs.current)),
             shop |-> setInventory(sh, variant.inventoryItemId, rs.location.id, row.quantity)]
      [] OTHER -> [state |-> rs, shop |-> sh]

\* faulty variant of rowCatch: the row of a failing call is reported skipped
rowCatchSkips(row, variant, rs) ==
    rowDone(rs.location, rs.current, "skipped", failedApiError(row, variant))

\* the awaited call throws: the catch block of processRow
rowCatch(row, variant, rs) ==
    rowDone(rs.location, rs.current, "failed", failedApiError(row, variant))

\* a row run on for a number of calls, none failing
RECURSIVE rowRun(_, _, _, _, _)
rowRun(row, variant, step, locs, calls) ==
    IF calls = 0 THEN step
    ELSE rowRun(row, variant, rowStep(row, variant, step.state, step.shop, locs), locs, calls - 1)

\* summary[bucket].push(payload) for each outcome
RECURSIVE pushAll(_, _)
pushAll(sum, outs) ==
    IF outs = <<>> THEN sum
    ELSE pushAll([sum EXCEPT ![Head(outs).bucket] = Append(@, Head(outs).payload)], Tail(outs))

EmptySummary == [updated |-> <<>>, failed |-> <<>>, skipped |-> <<>>]

(***************************************************************************)
(* The sheets uploaded and the shops they are run against.                 *)
(***************************************************************************)
RawRow(sku, barcode, location, bin, closing) ==
    ("sku" :> StrCell(sku)) @@ ("barcode" :> StrCell(barcode))
    @@ ("location" :> StrCell(location)) @@ ("bin name" :> StrCell(bin))
    @@ ("closing stock" :> closing)

RowPool ==
    << RawRow(<<"x">>, <<>>, <<>>, <<>>, NumCell(5)),
       RawRow(<<"X">>, <<>>, <<>>, <<>>, NumCell(7)),
       RawRow(<<"x">>, <<>>, <<"M">>, <<"a">>, NumCell(2)),
       RawRow(<<"x", " ">>, <<>>, <<"m">>, <<"b">>, NumCell(3)),
       RawRow(<<"x">>, <<>>, <<"M">>, <<"A">>, NumCell(1)),
       RawRow(<<>>, <<"7">>, <<"N">>, <<>>, NumCell(7)),
       RawRow(<<"y">>, <<>>, <<>>, <<>>, NumCell(5)),
       RawRow(<<>>, <<>>, <<>>, <<>>, NumCell(5)),
       RawRow(<<"y">>, <<>>, <<"N">>, <<>>, StrCell(<<>>)),
       RawRow(<<"z">>, <<>>, <<>>, <<>>, NumCell(1)),
       RawRow(<<"y">>, <<>>, <<"Q">>, <<>>, NumCell(1)),
       RawRow(<<"x">>, <<>>, <<"_", "_", "a", "u", "t", "o", "_", "_">>, <<>>, NumCell(2)) >>

\* the rows of the pool picked by a set of positions, in pool order
RECURSIVE PickRows(_, _)
PickRows(k, picked) ==
    IF k > Len(RowPool) THEN <<>>
    ELSE (IF k \in picked THEN <<RowPool[k]>> ELSE <<>>) \o PickRows(k + 1, picked)

Files ==
    {PickRows(1, picked) :
        picked \in {J \in SUBSET (1..Len(RowPool)) : Cardinality(J) <= MaxRows}}

Levels(held) ==
    [p \in Items \X LocationIds |-> IF p \in DOMAIN held THEN held[p] ELSE NoQty]

Shops ==
    { [locations |-> << [id |-> "L1", name |-> <<"M">>] >>,
       levels |-> Levels(<<"iX", "L1">> :> 5)],
      [locations |-> << [id |-> "L1", name |-> <<"M">>], [id |-> "L2", name |-> <<"N">>] >>,
       levels |-> Levels((<<"iX", "L1">> :> 5) @@ (<<"iY", "L2">> :> 2))] }

\* the rows of a pool picked by a set of positions, in pool order
RECURSIVE PickFrom(_, _, _)
PickFrom(pool, k, picked) ==
    IF k > Len(pool) THEN <<>>
    ELSE (IF k \in picked THEN <<pool[k]>> ELSE <<>>) \o PickFrom(pool, k + 1, picked)

\* the sheets of at most maxRows rows of a pool
SheetsOf(pool, maxRows) ==
    {PickFrom(pool, 1, {s[i] : i \in 1..maxRows} \ {0}) :
        s \in [1..maxRows -> 0..Len(pool)]}

\* a row of a sheet with the columns SKU, Item Code, Barcode, Handle, Title,
\* Size and Closing Stock, and no location column
LookupRow(sku, itemCode, barcode, handle, title, size) ==
    ("sku" :> StrCell(sku)) @@ ("item code" :> StrCell(itemCode))
    @@ ("barcode" :> StrCell(barcode)) @@ ("handle" :> StrCell(handle))
    @@ ("title" :> StrCell(title)) @@ ("size" :> StrCell(size))
    @@ ("closing stock" :> NumCell(4))

LookupPool ==
    << LookupRow(<<"z">>, <<>>, <<"7">>, <<>>, <<>>, <<>>),
       LookupRow(<<"x">>, <<>>, <<"7">>, <<>>, <<>>, <<>>),
       LookupRow(<<"x">>, <<>>, <<>>, <<>>, <<"a", " ", "y">>, <<>>),
       LookupRow(<<>>, <<"w">>, <<>>, <<>>, <<>>, <<>>),
       LookupRow(<<"z">>, <<"v">>, <<>>, <<>>, <<>>, <<>>),
       LookupRow(<<>>, <<>>, <<>>, <<"q">>, <<"a", " ", "y">>, <<>>),
       LookupRow(<<>>, <<>>, <<>>, <<"g">>, <<>>, <<>>),
       LookupRow(<<>>, <<>>, <<>>, <<"h">>, <<>>, <<"A", " ">>),
       LookupRow(<<>>, <<>>, <<>>, <<"h">>, <<"S">>, <<>>),
       LookupRow(<<>>, <<>>, <<>>, <<"h">>, <<"a", " ", "b">>, <<>>),
       LookupRow(<<>>, <<>>, <<>>, <<"h">>,
                 <<"B", "l", "u", "e", " ", "H", "o", "o", "d", "i", "e">>, <<"m">>),
       LookupRow(<<>>, <<>>, <<>>, <<"h">>, <<>>, <<"c">>),
       LookupRow(<<>>, <<>>, <<>>, <<>>,
                 <<"B", "l", "u", "e", " ", "H", "o", "o", "d", "i", "e">>, <<>>),
       LookupRow(<<>>, <<>>, <<>>, <<>>, <<"a">>, <<>>),
       LookupRow(<<>>, <<>>, <<>>, <<>>, <<"c", " ", "a", " ", "b">>, <<"a">>),
       LookupRow(<<>>, <<>>, <<>>, <<>>, <<"c", " ", "a", " ", "b">>, <<>>),
       LookupRow(<<>>, <<>>, <<>>, <<>>, <<"H", "o", "o", "d">>, <<>>),
       LookupRow(<<>>, <<>>, <<>>, <<>>, <<"A", "-", "B", " ", " ", "c">>, <<>>),
       LookupRow(<<>>, <<>>, <<>>, <<>>, <<"y", " ", "z">>, <<>>),
       LookupRow(<<>>, <<>>, <<>>, <<>>, <<"a", " ", "y">>, <<>>) >>

(***************************************************************************)
(* State machine of processUpload.                                         *)
(***************************************************************************)
(***************************************************************************)
(* ShopifyService.withRetry around one operation (a graphql request).      *)
(* An error is [name, statusCode, message]; statusCode 0 stands for an     *)
(* error object without a statusCode.                                      *)
(***************************************************************************)
\* what graphql throws: HttpLikeError for a response that is not ok, Error for
\* GraphQL errors in the payload or a payload without data; what fetch throws
OperationErrors ==
    { [name |-> "HttpLikeError", statusCode |-> 429, message |-> "Shopify GraphQL HTTP 429"],
      [name |-> "HttpLikeError", statusCode |-> 500, message |-> "Shopify GraphQL HTTP 500"],
      [name |-> "Error", statusCode |-> 0, message |-> "Throttled"],
      [name |-> "Error", statusCode |-> 0, message |-> "Shopify GraphQL response missing data"],
      [name |-> "TypeError", statusCode |-> 0, message |-> "fetch failed"] }

\* what graphql returns: the data of the payload, the user errors of a
\* mutation among them
OperationResults == {"data", "data with userErrors"}

\* error.statusCode of an HttpLikeError or of an object with a numeric statusCode
extractStatusCode(error) ==
    IF error.name = "HttpLikeError" THEN error.statusCode
    ELSE IF error.statusCode # 0 THEN error.statusCode
    ELSE 0

\* faulty variant of shouldRetry: every error is retried
shouldRetryAnyError(statusCode, attempt, maxRetries) == attempt <= maxRetries

\* statusCode === 429 && attempt <= this.maxRetries
shouldRetry(statusCode, attempt, maxRetries) == statusCode = 429 /\ attempt <= maxRetries

\* faulty variant of delayMsOf: the wait doubles with every attempt
delayMsDoubling(retryBaseDelayMs, attempt) == retryBaseDelayMs * 2 ^ (attempt - 1)

\* this.retryBaseDelayMs * attempt
delayMsOf(retryBaseDelayMs, attempt) == retryBaseDelayMs * attempt

\* withRetry awaits its operation for the first time
RetryCall(maxRetries, retryBaseDelayMs) ==
    [maxRetries |-> maxRetries, retryBaseDelayMs |-> retryBaseDelayMs, attempt |-> 1,
     issued |-> 1, delays |-> <<>>, caught |-> <<>>, status |-> "awaiting",
     result |-> "", thrown |-> <<>>]

\* no withRetry call is under way
NoRetry == [RetryCall(0, 0) EXCEPT !.attempt = 0, !.issued = 0, !.status = "idle"]

\* no title lookup is under way
NoTitleSearch == [title |-> <<>>, products |-> <<>>, rankedProducts |-> <<>>]

\* the state after construction, for a set of sheets, a set of configured
\* default location names, a set of title lookups, a set of shops and a set of
\* withRetry calls
Start(files, defaults, lookups, shops, retries) ==
    /\ retry \in retries
    /\ file \in files
    /\ sheetNames \in {0, 1}
    /\ sheetNames = 0 => file = <<>>
    /\ titleSearch \in lookups
    /\ defaultLocationName \in defaults
    /\ lookupCalls = <<>>
    /\ rowCalls = <<>>
    /\ batchSize \in 1..MaxBatchSize
    /\ \E s \in shops : shopLocations = s.locations /\ shop = s.levels /\ refShop = s.levels
    /\ phase = "idle"
    /\ summary = EmptySummary
    /\ parsedRows = <<>>
    /\ dedupedRows = <<>>
    /\ locations = <<>>
    /\ uniqueRows = <<>>
    /\ variantByIdentifier = <<>>
    /\ batchNo = 0
    /\ lookupStage = <<>>
    /\ rowState = <<>>
    /\ refRow = <<>>
    /\ resolveCalls = <<>>
    /\ setCalls = {}
    /\ faults = 0
    /\ rowFault = <<>>
    /\ run = 1
    /\ firstSummary = EmptySummary

\* the deployment as configured: no default location name
Init == Start(Files, {<<>>}, {NoTitleSearch}, Shops, {NoRetry})

\* the members of batch b, in order
batchSeq(n, b) == SelectSeq([i \in 1..n |-> i], LAMBDA i : i \in chunkMembers(n, batchSize, b))

\* prefetch: the batch's resolveVariant calls start; each awaits its first lookup
startPrefetchBatch(rows, b, stages) ==
    [i \in 1..Len(rows) |->
        IF i \in chunkMembers(Len(rows), batchSize, b) THEN stageFrom(rows[i], 1) ELSE stages[i]]

\* the cache entries of the rows whose cascade ends without any lookup
RECURSIVE cacheWithout(_, _, _)
cacheWithout(rows, members, cache) ==
    IF members = <<>> THEN cache
    ELSE cacheWithout(rows, Tail(members),
                      IF stageFrom(rows[Head(members)], 1) = "none"
                      THEN (buildIdentifierKey(rows[Head(members)]) :> noMatchingVariant) @@ cache
                      ELSE cache)

\* faulty variant of lookupDone: a resolveVariant call counts as settled once
\* it has started
lookupDoneOnceStarted(stage) == stage # "pending"

\* the resolveVariant call of a unique row has settled
lookupDone(stage) == stage \in {"none", "done"}

\* faulty variant of startProcessBatch: the rows of the next batch start with
\* the rows of batch b, without awaiting them
startProcessBatchAhead(rows, b, states) ==
    [i \in 1..Len(rows) |->
        IF /\ i \in chunkMembers(Len(rows), batchSize, b) \cup
                    chunkMembers(Len(rows), batchSize, b + 1)
           /\ states[i].stage = "pending"
        THEN startRow(rows[i], variantByIdentifier, locations)
        ELSE states[i]]

\* processing: the batch's processRow calls start, each up to its first remote call
startProcessBatch(rows, b, states) ==
    [i \in 1..Len(rows) |->
        IF i \in chunkMembers(Len(rows), batchSize, b)
        THEN startRow(rows[i], variantByIdentifier, locations)
        ELSE states[i]]

\* the results of the rows of a batch that returned without any remote call
RECURSIVE startOutcomes(_, _)
startOutcomes(states, members) ==
    IF members = <<>> THEN <<>>
    ELSE states[Head(members)].out \o startOutcomes(states, Tail(members))

\* the states of the reference run once the batch has started: as in the run
startReference(states, started) ==
    [i \in 1..Len(states) |-> IF states[i].stage = "pending" THEN started[i] ELSE states[i]]

\* the resolveVariant calls a prefetch batch issues, by identity key
keysOfMembers(rows, members) ==
    [j \in 1..Len(members) |-> buildIdentifierKey(rows[members[j]])]

\* the stage of every row of a sequence of row states
stagesOf(states) == [i \in DOMAIN states |-> states[i].stage]

\* the log of remote calls once the stages went from `before` to `after`: a
\* position whose stage became a remote call has issued that call
logCalls(log, before, after) ==
    [i \in DOMAIN log |->
        IF after[i] # before[i] /\ after[i] \notin {"pending", "none", "done"}
        THEN Append(log[i], after[i]) ELSE log[i]]

\* processUpload up to its first await: parse, push the skips, deduplicate,
\* call getLocations
ProcessUpload ==
    /\ phase = "idle"
    /\ \E parsed \in {parseWorkbook(sheetNames, file)} :
          /\ parsedRows' = parsed.parsedRows
          /\ IF parsed.parsedRows = <<>>
             THEN /\ summary' = [EmptySummary EXCEPT !.skipped = parsed.skippedRows]
                  /\ dedupedRows' = <<>>
                  /\ phase' = "done"
             ELSE \E dedup \in {deduplicateRows(parsed.parsedRows)} :
                  /\ summary' = [updated |-> <<>>,
                                 failed |-> dedup.failed,
                                 skipped |-> parsed.skippedRows \o dedup.skipped]
                  /\ dedupedRows' = dedup.unique
                  /\ phase' = "locations"
    /\ UNCHANGED <<sheetNames, file, batchSize, shopLocations, shop, locations, uniqueRows,
                   variantByIdentifier, batchNo, lookupStage, rowState, resolveCalls,
                   setCalls, faults, rowFault, refShop, refRow, run, firstSummary,
                   defaultLocationName, titleSearch, retry, lookupCalls, rowCalls>>

\* getLocations returns; prefetchVariantsByIdentifier starts its first batch
GetLocationsReturns ==
    /\ phase = "locations"
    /\ locations' = shopLocations
    /\ rowState' = [i \in 1..Len(dedupedRows) |-> PendingRow]
    /\ refRow' = [i \in 1..Len(dedupedRows) |-> PendingRow]
    /\ rowFault' = [i \in 1..Len(dedupedRows) |-> FALSE]
    /\ rowCalls' = [i \in 1..Len(dedupedRows) |-> <<>>]
    /\ \E unique \in {uniqueRowsOf(dedupedRows)} :
          /\ uniqueRows' = unique
          /\ IF unique = <<>>
             THEN /\ phase' = "done"
                  /\ UNCHANGED <<batchNo, lookupStage, resolveCalls, variantByIdentifier,
                                 lookupCalls>>
             ELSE \E members \in {batchSeq(Len(unique), 1)} :
                  \E stages \in {startPrefetchBatch(unique, 1,
                                                    [i \in 1..Len(unique) |-> "pending"])} :
                  /\ phase' = "prefetch"
                  /\ batchNo' = 1
                  /\ lookupStage' = stages
                  /\ lookupCalls' = logCalls([i \in 1..Len(unique) |-> <<>>],
                                             [i \in 1..Len(unique) |-> "pending"], stages)
                  /\ variantByIdentifier' = cacheWithout(unique, members, variantByIdentifier)
                  /\ resolveCalls' = resolveCalls \o keysOfMembers(unique, members)
    /\ UNCHANGED <<sheetNames, file, batchSize, shopLocations, shop, summary, parsedRows, dedupedRows,
                   setCalls, faults, refShop, run, firstSummary, defaultLocationName, titleSearch, retry>>

\* getLocations throws: processUpload rejects, no summary is returned
GetLocationsThrows ==
    /\ phase = "locations"
    /\ faults < MaxFaults
    /\ faults' = faults + 1
    /\ phase' = "aborted"
    /\ UNCHANGED <<sheetNames, file, batchSize, shopLocations, shop, summary, parsedRows, dedupedRows,
                   locations, uniqueRows, variantByIdentifier, batchNo, lookupStage,
                   rowState, resolveCalls, setCalls, rowFault, refShop, refRow, run,
                   firstSummary, defaultLocationName, titleSearch, retry, lookupCalls, rowCalls>>

\* the lookup awaited by resolveVariant for unique row i returns
LookupReturns(i) ==
    /\ phase = "prefetch"
    /\ ~lookupDone(lookupStage[i]) /\ lookupStage[i] # "pending"
    /\ \E step \in {resolveStep(uniqueRows[i], lookupStage[i])} :
          /\ lookupStage' = [lookupStage EXCEPT ![i] = step.next]
          /\ lookupCalls' = logCalls(lookupCalls, lookupStage,
                                     [lookupStage EXCEPT ![i] = step.next])
          /\ variantByIdentifier' =
                IF step.done
                THEN (buildIdentifierKey(uniqueRows[i]) :> step.resolution) @@ variantByIdentifier
                ELSE variantByIdentifier
    /\ UNCHANGED <<sheetNames, file, batchSize, shopLocations, shop, phase, summary, parsedRows,
                   dedupedRows, locations, uniqueRows, batchNo, rowState, resolveCalls,
                   setCalls, faults, rowFault, refShop, refRow, run, firstSummary,
                   defaultLocationName, titleSearch, retry, rowCalls>>

\* faulty variant of LookupThrows: the error of the lookup is not caught, and
\* processUpload rejects
LookupThrowsAborts(i) ==
    /\ phase = "prefetch"
    /\ ~lookupDone(lookupStage[i]) /\ lookupStage[i] # "pending"
    /\ faults < MaxFaults
    /\ faults' = faults + 1
    /\ phase' = "aborted"
    /\ UNCHANGED <<sheetNames, file, batchSize, shopLocations, shop, summary, parsedRows,
                   dedupedRows, locations, uniqueRows, variantByIdentifier, batchNo,
                   lookupStage, rowState, resolveCalls, setCalls, rowFault, refShop, refRow,
                   run, firstSummary, defaultLocationName, titleSearch, retry, lookupCalls,
                   rowCalls>>

\* the lookup throws: the catch of the prefetch stores a failed resolution
LookupThrows(i) ==
    /\ phase = "prefetch"
    /\ ~lookupDone(lookupStage[i]) /\ lookupStage[i] # "pending"
    /\ faults < MaxFaults
    /\ faults' = faults + 1
    /\ lookupStage' = [lookupStage EXCEPT ![i] = "done"]
    /\ variantByIdentifier' =
          (buildIdentifierKey(uniqueRows[i]) :> lookupError) @@ variantByIdentifier
    /\ UNCHANGED <<sheetNames, file, batchSize, shopLocations, shop, phase, summary, parsedRows,
                   dedupedRows, locations, uniqueRows, batchNo, rowState, resolveCalls,
                   setCalls, rowFault, refShop, refRow, run, firstSummary,
                   defaultLocationName, titleSearch, retry, lookupCalls, rowCalls>>

\* Promise.all of a prefetch batch settles, the delay passes: the next prefetch
\* batch starts, or the prefetch returns and the first batch of rows starts
PrefetchBatchDone ==
    /\ phase = "prefetch"
    /\ \A i \in chunkMembers(Len(uniqueRows), batchSize, batchNo) : lookupDone(lookupStage[i])
    /\ IF batchNo < chunkCount(Len(uniqueRows), batchSize)
       THEN \E members \in {batchSeq(Len(uniqueRows), batchNo + 1)} :
            \E stages \in {startPrefetchBatch(uniqueRows, batchNo + 1, lookupStage)} :
               /\ batchNo' = batchNo + 1
               /\ lookupStage' = stages
               /\ lookupCalls' = logCalls(lookupCalls, lookupStage, stages)
               /\ variantByIdentifier' =
                     cacheWithout(uniqueRows, members, variantByIdentifier)
               /\ resolveCalls' = resolveCalls \o keysOfMembers(uniqueRows, members)
               /\ UNCHANGED <<phase, summary, rowState, refRow, rowCalls>>
       ELSE \E started \in {startProcessBatch(dedupedRows, 1, rowState)} :
               /\ phase' = "process"
               /\ batchNo' = 1
               /\ rowState' = started
               /\ rowCalls' = logCalls(rowCalls, stagesOf(rowState), stagesOf(started))
               /\ refRow' = startReference(refRow, started)
               /\ summary' = pushAll(summary,
                                     startOutcomes(started, batchSeq(Len(dedupedRows), 1)))
               /\ UNCHANGED <<lookupStage, variantByIdentifier, resolveCalls, lookupCalls>>
    /\ UNCHANGED <<sheetNames, file, batchSize, shopLocations, shop, parsedRows, dedupedRows, locations,
                   uniqueRows, setCalls, faults, rowFault, refShop, run, firstSummary,
                   defaultLocationName, titleSearch, retry>>

\* the cached variant of a deduplicated row
variantOf(row) == variantByIdentifier[buildIdentifierKey(row)]

\* the reference run follows the run call by call; when the run's row ends
\* (or its call throws) the reference row runs to its own end (three calls at most)
refAfter(row, variant, rs, rowEnds) ==
    IF rs.stage \in {"done", "pending"} THEN [state |-> rs, shop |-> refShop]
    ELSE rowRun(row, variant, [state |-> rs, shop |-> refShop], locations,
                IF rowEnds THEN 3 ELSE 1)

\* the remote call awaited by processRow for row i at `stage` returns
RowCallReturns(i, stage) ==
    /\ phase = "process"
    /\ rowState[i].stage = stage
    /\ \E variant \in {variantOf(dedupedRows[i])} :
          \E step \in {rowStep(dedupedRows[i], variant, rowState[i], shop, locations)} :
             /\ rowState' = [rowState EXCEPT ![i] = step.state]
             /\ rowCalls' = logCalls(rowCalls, stagesOf(rowState),
                                     [stagesOf(rowState) EXCEPT ![i] = step.state.stage])
             /\ shop' = step.shop
             /\ summary' = pushAll(summary, step.state.out)
             /\ \E ref \in {refAfter(dedupedRows[i], variant, refRow[i],
                                     step.state.stage = "done")} :
                   /\ refRow' = [refRow EXCEPT ![i] = ref.state]
                   /\ refShop' = ref.shop
    /\ UNCHANGED <<sheetNames, file, batchSize, shopLocations, phase, parsedRows, dedupedRows, locations,
                   uniqueRows, variantByIdentifier, batchNo, lookupStage, resolveCalls,
                   faults, rowFault, run, firstSummary, defaultLocationName, titleSearch, retry, lookupCalls>>

\* the remote call awaited by processRow for row i at `stage` throws
RowCallThrows(i, stage) ==
    /\ phase = "process"
    /\ rowState[i].stage = stage
    /\ faults < MaxFaults
    /\ faults' = faults + 1
    /\ rowFault' = [rowFault EXCEPT ![i] = TRUE]
    /\ \E variant \in {variantOf(dedupedRows[i])} :
          /\ \E caught \in {rowCatch(dedupedRows[i], variant, rowState[i])} :
                /\ rowState' = [rowState EXCEPT ![i] = caught]
                /\ summary' = pushAll(summary, caught.out)
          /\ \E ref \in {refAfter(dedupedRows[i], variant, refRow[i], TRUE)} :
                /\ refRow' = [refRow EXCEPT ![i] = ref.state]
                /\ refShop' = ref.shop
    /\ UNCHANGED <<sheetNames, file, batchSize, shopLocations, shop, phase, parsedRows, dedupedRows,
                   locations, uniqueRows, variantByIdentifier, batchNo, lookupStage,
                   resolveCalls, run, firstSummary, defaultLocationName, titleSearch, retry, lookupCalls,
                   rowCalls>>

\* the record of a setInventory call that completed (ok) or threw
SetCall(i, ok) ==
    [rowNumber |-> dedupedRows[i].rowNumber,
     inventoryItemId |-> variantOf(dedupedRows[i]).inventoryItemId,
     locationId |-> rowState[i].location.id,
     quantity |-> dedupedRows[i].quantity,
     ok |-> ok]

ItemLocationsReturns(i) == RowCallReturns(i, "itemLocs") /\ UNCHANGED setCalls

ItemLocationsThrows(i) == RowCallThrows(i, "itemLocs") /\ UNCHANGED setCalls

CurrentInventoryReturns(i) == RowCallReturns(i, "current") /\ UNCHANGED setCalls

CurrentInventoryThrows(i) == RowCallThrows(i, "current") /\ UNCHANGED setCalls

SetInventoryReturns(i) ==
    RowCallReturns(i, "set") /\ setCalls' = setCalls \cup {SetCall(i, TRUE)}

SetInventoryThrows(i) ==
    RowCallThrows(i, "set") /\ setCalls' = setCalls \cup {SetCall(i, FALSE)}

\* Promise.all of a batch of rows settles: the delay passes and the next batch
\* starts, or processUpload returns the summary
ProcessBatchDone ==
    /\ phase = "process"
    /\ \A i \in chunkMembers(Len(dedupedRows), batchSize, batchNo) : rowState[i].stage = "done"
    /\ IF batchNo < chunkCount(Len(dedupedRows), batchSize)
       THEN \E started \in {startProcessBatch(dedupedRows, batchNo + 1, rowState)} :
               /\ batchNo' = batchNo + 1
               /\ rowState' = started
               /\ rowCalls' = logCalls(rowCalls, stagesOf(rowState), stagesOf(started))
               /\ refRow' = startReference(refRow, started)
               /\ summary' = pushAll(summary,
                                     startOutcomes(started,
                                                   batchSeq(Len(dedupedRows), batchNo + 1)))
               /\ phase' = phase
       ELSE /\ phase' = "done"
            /\ UNCHANGED <<batchNo, rowState, refRow, summary, rowCalls>>
    /\ UNCHANGED <<sheetNames, file, batchSize, shopLocations, shop, parsedRows, dedupedRows, locations,
                   uniqueRows, variantByIdentifier, lookupStage, resolveCalls, setCalls,
                   faults, rowFault, refShop, run, firstSummary, defaultLocationName, titleSearch, retry,
                   lookupCalls>>

\* the same file is uploaded again to the shop as the first run left it
SecondUpload ==
    /\ phase = "done"
    /\ run = 1
    /\ run' = 2
    /\ firstSummary' = summary
    /\ phase' = "idle"
    /\ summary' = EmptySummary
    /\ parsedRows' = <<>>
    /\ dedupedRows' = <<>>
    /\ locations' = <<>>
    /\ uniqueRows' = <<>>
    /\ variantByIdentifier' = <<>>
    /\ batchNo' = 0
    /\ lookupStage' = <<>>
    /\ rowState' = <<>>
    /\ refRow' = <<>>
    /\ refShop' = shop
    /\ resolveCalls' = <<>>
    /\ setCalls' = {}
    /\ rowFault' = <<>>
    /\ lookupCalls' = <<>>
    /\ rowCalls' = <<>>
    /\ UNCHANGED <<sheetNames, file, batchSize, shopLocations, shop, faults, defaultLocationName, titleSearch, retry>>

RemoteReturns ==
    \/ GetLocationsReturns
    \/ \E i \in DOMAIN uniqueRows : LookupReturns(i)
    \/ \E i \in DOMAIN dedupedRows : ItemLocationsReturns(i)
    \/ \E i \in DOMAIN dedupedRows : CurrentInventoryReturns(i)
    \/ \E i \in DOMAIN dedupedRows : SetInventoryReturns(i)

RemoteThrows ==
    \/ GetLocationsThrows
    \/ \E i \in DOMAIN uniqueRows : LookupThrows(i)
    \/ \E i \in DOMAIN dedupedRows : ItemLocationsThrows(i)
    \/ \E i \in DOMAIN dedupedRows : CurrentInventoryThrows(i)
    \/ \E i \in DOMAIN dedupedRows : SetInventoryThrows(i)

Next ==
    \/ ProcessUpload
    \/ RemoteReturns
    \/ RemoteThrows
    \/ PrefetchBatchDone
    \/ ProcessBatchDone

Spec == Init /\ [][Next]_vars

\* two uploads of the same file, every remote call succeeding
NextTwice ==
    \/ ProcessUpload
    \/ RemoteReturns
    \/ PrefetchBatchDone
    \/ ProcessBatchDone
    \/ SecondUpload

SpecTwice == Init /\ [][NextTwice]_vars

\* runs of the sheets whose rows differ by their identifiers
InitLookup == Start(SheetsOf(LookupPool, MaxLookupRows), {<<>>}, {NoTitleSearch}, Shops, {NoRetry})

SpecLookup == InitLookup /\ [][Next]_vars

\* rows that name a location of the shop, an unknown location or none; the
\* last three have closing stocks that are no natural numbers, two of them in
\* two bins of one location
LocationPool ==
    << RawRow(<<"x">>, <<>>, <<>>, <<>>, NumCell(4)),
       RawRow(<<"w">>, <<>>, <<>>, <<>>, NumCell(4)),
       RawRow(<<"y">>, <<>>, <<"n", " ">>, <<>>, NumCell(4)),
       RawRow(<<"x">>, <<>>, <<"Q">>, <<>>, NumCell(4)),
       RawRow(<<"w">>, <<>>, <<" ", "M">>, <<>>, NumCell(4)),
       RawRow(<<"x">>, <<>>, <<"N">>, <<>>, NumCell(5)),
       RawRow(<<"y">>, <<>>, <<>>, <<>>, StrCell(<<"0", ".", "4">>)),
       RawRow(<<"x">>, <<>>, <<"M">>, <<"a">>, StrCell(<<"2", ".", "5">>)),
       RawRow(<<"x">>, <<>>, <<"M">>, <<"b">>, StrCell(<<"-", "1", ".", "5">>)) >>

\* shops of one location, and of two locations where an item is held at one,
\* at both or at none
LocationShops ==
    Shops \cup
    { [locations |-> << [id |-> "L1", name |-> <<"M">>], [id |-> "L2", name |-> <<"N", " ">>] >>,
       levels |-> Levels((<<"iX", "L1">> :> 4) @@ (<<"iX", "L2">> :> 0)
                         @@ (<<"iY", "L2">> :> 2))] }

\* APP_CONFIG.shopify.defaultLocationName: none, a location of the shop, an
\* unknown location
DefaultLocationNames == {<<>>, <<" ", "N">>, <<"Q">>}

InitLocation ==
    Start(SheetsOf(LocationPool, MaxLocationRows), DefaultLocationNames, {NoTitleSearch},
          LocationShops, {NoRetry})

SpecLocation == InitLocation /\ [][Next]_vars

\* a row of a sheet: cells maps a header to the cell of the row, or to nothing
\* when the sheet has no such column
QuantityRow(cells) ==
    [h \in {c \in DOMAIN cells : cells[c] # <<>>} |-> cells[h][1]]

\* sheets of one row: the row has SKU x, a blank SKU or only a title, and
\* stock columns that are absent, empty, numbers or texts; or it has SKU x, a
\* text as closing stock and an opening stock or none
QuantityFiles ==
    { << QuantityRow(("sku" :> id[1]) @@ ("title" :> id[2])
                     @@ ("closing stock" :> closing) @@ ("quantity" :> quantity)
                     @@ ("opening stock" :> opening) @@ ("stock movement" :> movement)
                     @@ ("inward stock" :> inward) @@ ("out qty" :> outward)) >> :
        id \in { << <<StrCell(<<"x">>)>>, <<>> >>, << <<StrCell(<<" ">>)>>, <<>> >>,
                 << <<StrCell(<<>>)>>, <<StrCell(<<"a">>)>> >> },
        closing \in {<<>>, <<StrCell(<<>>)>>, <<NumCell(4)>>, <<StrCell(<<"-", "1", ".", "5">>)>>},
        quantity \in {<<>>, <<StrCell(<<>>)>>, <<StrCell(<<"2", ".", "5">>)>>},
        opening \in {<<>>, <<StrCell(<<>>)>>, <<NumCell(3)>>, <<StrCell(<<"-", "1", ".", "5">>)>>},
        movement \in {<<>>, <<StrCell(<<"a", "b", "c">>)>>, <<NumCell(0 - 5)>>,
                      <<StrCell(<<"0", ".", "5">>)>>},
        inward \in {<<>>, <<NumCell(2)>>, <<StrCell(<<"n", "/", "a">>)>>},
        outward \in {<<>>, <<StrCell(<<>>)>>, <<StrCell(<<"1", ".", "5">>)>>} }
    \cup
    { << QuantityRow(("sku" :> <<StrCell(<<"x">>)>>) @@ ("closing stock" :> <<StrCell(text)>>)
                     @@ ("opening stock" :> opening)) >> :
        text \in { <<"N", "/", "A">>, <<"n", "a">>, <<"N", "o", "n", "e">>,
                   <<"N", "U", "L", "L">>, <<" ", "-", " ">>,
                   <<"N", "o", "t", " ", "S", "t", "o", "c", "k", "e", "d">>,
                   <<"a", "b", "c">>, <<"n", ".", "a">>, <<"n", "i", "l">>, <<"-", "-">> },
        opening \in {<<>>, <<NumCell(3)>>} }

\* parseInventoryRows on a sheet of one row
InitQuantity == Start(QuantityFiles, {<<>>}, {NoTitleSearch}, Shops, {NoRetry})

SpecQuantity == InitQuantity /\ [][ProcessUpload]_vars

\* a withRetry call of a deployment awaits its operation for the first time
InitRetry ==
    Start({<<>>}, {<<>>}, {NoTitleSearch}, Shops,
          {RetryCall(m, d) : m \in 0..MaxRetries, d \in 1..MaxBaseDelay})

\* the operation resolves: withRetry returns its result
OperationReturns ==
    /\ retry.status = "awaiting"
    /\ \E result \in OperationResults :
          retry' = [retry EXCEPT !.status = "returned", !.result = result]
    /\ UNCHANGED <<sheetNames, file, batchSize, shopLocations, shop, phase, summary, parsedRows,
                   dedupedRows, locations, uniqueRows, variantByIdentifier, batchNo,
                   lookupStage, rowState, resolveCalls, setCalls, faults, rowFault, refShop,
                   refRow, run, firstSummary, defaultLocationName, lookupCalls, rowCalls,
                   titleSearch>>

\* the operation rejects: withRetry waits and awaits the operation again, or
\* throws the error
OperationThrows ==
    /\ retry.status = "awaiting"
    /\ \E error \in OperationErrors :
          IF shouldRetry(extractStatusCode(error), retry.attempt, retry.maxRetries)
          THEN retry' = [retry EXCEPT
                           !.caught = Append(@, error),
                           !.delays = Append(@, delayMsOf(retry.retryBaseDelayMs, retry.attempt)),
                           !.attempt = @ + 1,
                           !.issued = @ + 1]
          ELSE retry' = [retry EXCEPT
                           !.caught = Append(@, error),
                           !.status = "thrown",
                           !.thrown = <<error>>]
    /\ UNCHANGED <<sheetNames, file, batchSize, shopLocations, shop, phase, summary, parsedRows,
                   dedupedRows, locations, uniqueRows, variantByIdentifier, batchNo,
                   lookupStage, rowState, resolveCalls, setCalls, faults, rowFault, refShop,
                   refRow, run, firstSummary, defaultLocationName, lookupCalls, rowCalls,
                   titleSearch>>

NextRetry ==
    \/ OperationReturns
    \/ OperationThrows

SpecRetry == InitRetry /\ [][NextRetry]_vars

\* a run of processUpload over a sheet of MaxLiveRows rows at most, or a
\* withRetry call with the configured maxRetries beside a run over an empty
\* sheet
InitLive ==
    \/ Start(SheetsOf(RowPool, MaxLiveRows), {<<>>}, {NoTitleSearch}, Shops, {NoRetry})
    \/ Start({<<>>}, {<<>>}, {NoTitleSearch}, Shops, {RetryCall(MaxRetries, 1)})

NextLive ==
    \/ Next
    \/ NextRetry

\* the schedule of the event loop: a continuation that is ready runs, and a
\* remote call that is awaited returns or fails. processUpload is enabled
\* exactly when phase = "idle", so its weak fairness is: a run that stays
\* idle for ever takes the step infinitely often
Fairness ==
    /\ <>[](phase = "idle") => []<><<ProcessUpload>>_vars
    /\ WF_vars(PrefetchBatchDone \/ ProcessBatchDone)
    /\ WF_vars(RemoteReturns \/ RemoteThrows)
    /\ WF_vars(NextRetry)

SpecLive == InitLive /\ [][NextLive]_vars /\ Fairness

\* titles of rows and of products
TitlePool ==
    { <<"a", " ", "b">>, <<"A", "-", "B">>, <<"a", " ", "a", " ", "b">>,
      <<"c", " ", "a", " ", "b">>, <<"a", " ", "b", " ", "c", " ", "d">>, <<"y", " ", "z">>,
      <<"H", "o", "o", "d">>, <<"h", "o", "o", "d", " ">>,
      <<"R", "e", "d", " ", "H", "o", "o", "d", "i", "e">>,
      <<"B", "l", "u", "e", " ", "H", "o", "o", "d", "i", "e">>,
      <<"B", "l", "u", "e", " ", "H", "o", "o", "d", "i", "e", "s">>,
      <<"b", "l", "u", "e", " ", "h", "o", "o", "d", "i", "x">>, <<"-">> }

\* payload.products.edges of a title search: products by their titles
TitleSearches ==
    { [title |-> t,
       products |-> << [title |-> a, variants |-> <<>>], [title |-> b, variants |-> <<>>] >>,
       rankedProducts |-> <<>>] : t \in TitlePool, a \in TitlePool, b \in TitlePool }

\* getVariantsByTitle on a payload of two products, before it ranks them
InitTitle == Start({<<>>}, {<<>>}, TitleSearches, Shops, {NoRetry})

\* getVariantsByTitle: every product of the payload is scored against the
\* title and the products are sorted by descending score
RankProducts ==
    /\ titleSearch.products # <<>>
    /\ titleSearch.rankedProducts = <<>>
    /\ titleSearch' = [titleSearch EXCEPT
                         !.rankedProducts =
                             sortByScore(scoredProducts(titleSearch.title, titleSearch.products))]
    /\ UNCHANGED <<sheetNames, file, batchSize, shopLocations, shop, phase, summary, parsedRows,
                   dedupedRows, locations, uniqueRows, variantByIdentifier, batchNo,
                   lookupStage, rowState, resolveCalls, setCalls, faults, rowFault, refShop,
                   refRow, run, firstSummary, defaultLocationName, lookupCalls, rowCalls,
                   retry>>

SpecTitle == InitTitle /\ [][RankProducts]_vars

(***************************************************************************)
(* Properties.  Vocabulary shared by the properties below.                 *)
(***************************************************************************)
\* every entry of the summary, bucket after bucket
AllEntries == summary.updated \o summary.failed \o summary.skipped

NoDuplicates(seq) == \A i, j \in DOMAIN seq : seq[i] = seq[j] => i = j

\* the entries of a bucket of a summary that report row number r
EntriesOf(sum, bucket, r) == SelectSeq(sum[bucket], LAMBDA e : e.rowNumber = r)

\* processing has started: the cache is filled, rows have a state
Processing == phase \in {"process", "done"} /\ dedupedRows # <<>>

\* deduplication has run
Deduplicated == phase # "idle" /\ parsedRows # <<>>

\* the row of the run at position i has returned this bucket
Returned(states, i, bucket) ==
    states[i].stage = "done" /\ states[i].out[1].bucket = bucket

\* the groups of the file: sets of positions of parsedRows with one group key
Groups ==
    {g \in SUBSET DOMAIN parsedRows :
        /\ Cardinality(g) >= 2
        /\ \E k \in g : g = {m \in DOMAIN parsedRows :
                                groupKeyOf(parsedRows[m]) = groupKeyOf(parsedRows[k])}}

FirstOfGroup(g) == CHOOSE k \in g : \A m \in g : k <= m
LastOfGroup(g) == CHOOSE k \in g : \A m \in g : m <= k
GroupNumbers(g) == {parsedRows[m].rowNumber : m \in g}

RECURSIVE SumOver(_)
SumOver(g) ==
    IF g = {} THEN 0
    ELSE parsedRows[FirstOfGroup(g)].quantity + SumOver(g \ {FirstOfGroup(g)})

\* every row of the group has a bin, and no two bins are the same text
LiteralBinSplit(g) ==
    /\ \A m \in g : parsedRows[m].binName # <<>>
    /\ \A m, n \in g : m # n => parsedRows[m].binName # parsedRows[n].binName

\* every row of the group has a bin, and no two bins are the same once
\* trimmed and lower-cased
NormalizedBinSplit(g) ==
    /\ \A m \in g : Trim(parsedRows[m].binName) # <<>>
    /\ \A m, n \in g :
          m # n => ToLowerCase(Trim(parsedRows[m].binName))
                   # ToLowerCase(Trim(parsedRows[n].binName))

\* the group is folded into its first row, the other rows skipped once each
Aggregated(g) ==
    /\ \E i \in DOMAIN dedupedRows :
          /\ dedupedRows[i] =
                [parsedRows[FirstOfGroup(g)] EXCEPT
                    !.quantity = SumOver(g), !.calculationSource = "aggregated_from_bins"]
          /\ \A j \in DOMAIN dedupedRows :
                dedupedRows[j].rowNumber \in GroupNumbers(g) => j = i
    /\ \A m \in g \ {FirstOfGroup(g)} :
          /\ Len(EntriesOf(summary, "skipped", parsedRows[m].rowNumber)) = 1
          /\ EntriesOf(summary, "skipped", parsedRows[m].rowNumber)[1].reason.msg
                = "Aggregated with other bins for same item/location"
          /\ EntriesOf(summary, "updated", parsedRows[m].rowNumber) = <<>>
          /\ EntriesOf(summary, "failed", parsedRows[m].rowNumber) = <<>>

(***************************************************************************)
(* C1  Conservation.                                                       *)
(***************************************************************************)
\* C1: at no point of the run does a row number appear twice in the summary
\* (in one bucket or in two), and when processUpload returns every data row
\* of the sheet, 2..n+1, appears in it (of a workbook without a sheet, which
\* has no data row, the one record with row number 0).
Conservation ==
    /\ NoDuplicates([k \in DOMAIN AllEntries |-> AllEntries[k].rowNumber])
    /\ phase = "done" =>
          {AllEntries[k].rowNumber : k \in DOMAIN AllEntries}
              = IF sheetNames = 0 THEN {0} ELSE 2..(Len(file) + 1)

\* a run of a sheet of three rows that returned with an entry in each bucket
ConservationWitness ==
    /\ phase = "done"
    /\ Len(file) = 3
    /\ summary.updated # <<>> /\ summary.failed # <<>> /\ summary.skipped # <<>>

(***************************************************************************)
(* C2  Error isolation.                                                    *)
(***************************************************************************)
\* the inventory item the row at position i of dedupedRows resolved to
ItemOfRow(i) == variantOf(dedupedRows[i]).inventoryItemId

\* a failing call of processRow fails its own row, and no other row
FaultFailsOwnRow ==
    \A i \in DOMAIN dedupedRows :
        /\ rowFault[i] =>
              /\ Returned(rowState, i, "failed")
              /\ rowState[i].out[1].payload.reason.msg = "Shopify API error"
              /\ rowState[i].out[1].payload.rowNumber = dedupedRows[i].rowNumber
        /\ (~rowFault[i] /\ rowState[i].stage = "done") =>
              rowState[i].out[1].payload.reason.msg # "Shopify API error"

\* the row at position i returned the bucket it returns in the run in which
\* no call of processRow fails
SameAsWithoutError(i) ==
    rowState[i].stage = "done" =>
        /\ refRow[i].stage = "done"
        /\ rowState[i].out[1].bucket = refRow[i].out[1].bucket

RunNeverAborts == phase # "aborted"

(***************************************************************************)
(* C4  Unchanged rows are skipped without a write.                         *)
(***************************************************************************)
\* C4: a row whose read of the current quantity returned its target quantity
\* has returned skipped with 'Inventory already matches target quantity', and
\* setInventory was not called for it.
UnchangedSkippedWithoutWrite ==
    Processing =>
        \A i \in DOMAIN dedupedRows :
            rowState[i].current = dedupedRows[i].quantity =>
                /\ Returned(rowState, i, "skipped")
                /\ rowState[i].out[1].payload.reason.msg
                      = "Inventory already matches target quantity"
                /\ Len(EntriesOf(summary, "skipped", dedupedRows[i].rowNumber)) = 1
                /\ \A c \in setCalls : c.rowNumber # dedupedRows[i].rowNumber

\* a row whose read returned its target, in a run that also wrote a quantity
UnchangedSkippedWitness ==
    /\ phase = "done"
    /\ setCalls # {}
    /\ \E i \in DOMAIN dedupedRows :
          /\ rowState[i].current = dedupedRows[i].quantity
          /\ Returned(rowState, i, "skipped")

(***************************************************************************)
(* C5  Updated if and only if the quantity was set.                        *)
(***************************************************************************)
\* C5: a row is in updated exactly when setInventory was called for its
\* resolved item and location with its target quantity and returned; the
\* reason is 'Inventory created/initialized' when the read returned no
\* quantity and 'Updated from <previous>' otherwise; a setInventory that
\* throws puts the row in failed and not in updated.
UpdatedIffSet ==
    /\ \A k \in DOMAIN summary.updated :
          \E i \in DOMAIN dedupedRows : dedupedRows[i].rowNumber = summary.updated[k].rowNumber
    /\ Processing =>
        \A i \in DOMAIN dedupedRows :
            /\ EntriesOf(summary, "updated", dedupedRows[i].rowNumber) # <<>>
                  <=> [rowNumber |-> dedupedRows[i].rowNumber,
                       inventoryItemId |-> ItemOfRow(i),
                       locationId |-> rowState[i].location.id,
                       quantity |-> dedupedRows[i].quantity,
                       ok |-> TRUE] \in setCalls
            /\ \A c \in setCalls :
                  (c.rowNumber = dedupedRows[i].rowNumber /\ c.ok) =>
                      /\ c.inventoryItemId = ItemOfRow(i)
                      /\ c.locationId = rowState[i].location.id
                      /\ c.quantity = dedupedRows[i].quantity
            /\ \A k \in DOMAIN summary.updated :
                  summary.updated[k].rowNumber = dedupedRows[i].rowNumber =>
                      summary.updated[k].reason =
                          IF rowState[i].current = NoQty
                          THEN Message("Inventory created/initialized")
                          ELSE Reason("Updated from", <<>>, rowState[i].current, <<>>)
            /\ (\E c \in setCalls : c.rowNumber = dedupedRows[i].rowNumber /\ ~c.ok) =>
                  /\ EntriesOf(summary, "failed", dedupedRows[i].rowNumber) # <<>>
                  /\ EntriesOf(summary, "updated", dedupedRows[i].rowNumber) = <<>>

\* a run in which one setInventory created a level and another one threw
UpdatedIffSetWitness ==
    /\ phase = "done"
    /\ \E k \in DOMAIN summary.updated :
          summary.updated[k].reason.msg = "Inventory created/initialized"
    /\ \E c \in setCalls : ~c.ok

(***************************************************************************)
(* C6  Idempotence of a second run on the same file.                       *)
(***************************************************************************)
\* the entry is an 'already matches' skip
AlreadyMatches(e) == e.reason.msg = "Inventory already matches target quantity"

\* C6 as stated: when the second run on the same file has returned, every row
\* the first run updated or skipped as already matching is skipped as already
\* matching, and the second run called setInventory for no row.
SecondRunOnlySkips ==
    (run = 2 /\ phase = "done") =>
        /\ setCalls = {}
        /\ \A k \in DOMAIN firstSummary.updated :
              \E e \in Range(EntriesOf(summary, "skipped", firstSummary.updated[k].rowNumber)) :
                  AlreadyMatches(e)
        /\ \A k \in DOMAIN firstSummary.skipped :
              AlreadyMatches(firstSummary.skipped[k]) =>
                  \E e \in Range(EntriesOf(summary, "skipped",
                                           firstSummary.skipped[k].rowNumber)) :
                      AlreadyMatches(e)

(***************************************************************************)
(* C7  Bin aggregation.                                                    *)
(***************************************************************************)
\* C7 as stated: a group of rows of one identity key and location whose bins
\* are all non-empty and pairwise distinct is folded into its first row.
BinAggregationLiteral ==
    Deduplicated => \A g \in Groups : LiteralBinSplit(g) => Aggregated(g)

\* C7, amended: a group of rows of one identity key and location whose bins
\* are all non-empty and pairwise distinct once trimmed and lower-cased is
\* passed on as exactly one row: the first row with the sum of the group's
\* quantities and source aggregated_from_bins; every other row of the group
\* has exactly one skipped entry, 'Aggregated with other bins'.
BinAggregation ==
    Deduplicated => \A g \in Groups : NormalizedBinSplit(g) => Aggregated(g)

\* a run that returned after it folded a group of two bins into one row
BinAggregationWitness ==
    /\ phase = "done"
    /\ \E g \in Groups : NormalizedBinSplit(g)
    /\ \E i \in DOMAIN dedupedRows :
          /\ dedupedRows[i].calculationSource = "aggregated_from_bins"
          /\ rowState[i].stage = "done"

(***************************************************************************)
(* C8  Duplicate conflict.                                                 *)
(***************************************************************************)
\* the row numbers of a group, in file order
RECURSIVE NumbersInOrder(_)
NumbersInOrder(g) ==
    IF g = {} THEN <<>>
    ELSE <<parsedRows[FirstOfGroup(g)].rowNumber>> \o NumbersInOrder(g \ {FirstOfGroup(g)})

LatestRowWins ==
    Deduplicated =>
        \A g \in Groups :
            \E i \in DOMAIN dedupedRows :
                /\ dedupedRows[i].rowNumber = parsedRows[LastOfGroup(g)].rowNumber
                /\ dedupedRows[i].quantity = parsedRows[LastOfGroup(g)].quantity

(***************************************************************************)
(* C10  Memoized resolution.                                               *)
(***************************************************************************)
\* C10: resolveVariant is called at most once per identity key in a run, and
\* every row processed finds the resolution of its key in the cache and is
\* failed with the cached reason, or goes on with the cached variant.
MemoizedResolution ==
    /\ NoDuplicates(resolveCalls)
    /\ Processing =>
          \A i \in DOMAIN dedupedRows :
              /\ buildIdentifierKey(dedupedRows[i]) \in Range(resolveCalls)
              /\ buildIdentifierKey(dedupedRows[i]) \in DOMAIN variantByIdentifier
              /\ (rowState[i].stage # "pending" /\ ~variantOf(dedupedRows[i]).found) =>
                    /\ Returned(rowState, i, "failed")
                    /\ rowState[i].out[1].payload.reason = variantOf(dedupedRows[i]).reason
              /\ \A j \in DOMAIN dedupedRows :
                    (/\ buildIdentifierKey(dedupedRows[j]) = buildIdentifierKey(dedupedRows[i])
                     /\ Returned(rowState, i, "updated") /\ Returned(rowState, j, "updated"))
                    => \E c, d \in setCalls :
                          /\ c.rowNumber = dedupedRows[i].rowNumber
                          /\ d.rowNumber = dedupedRows[j].rowNumber
                          /\ c.inventoryItemId = d.inventoryItemId

\* two rows of one identity key, one naming its location and one not, both
\* processed with the one resolution
MemoizedResolutionWitness ==
    /\ phase = "done"
    /\ \E i, j \in DOMAIN dedupedRows :
          /\ i # j
          /\ buildIdentifierKey(dedupedRows[i]) = buildIdentifierKey(dedupedRows[j])
          /\ dedupedRows[i].shopifyLocationName # dedupedRows[j].shopifyLocationName
          /\ variantOf(dedupedRows[i]).found
          /\ rowState[i].location # NoLocation /\ rowState[j].location # NoLocation

(***************************************************************************)
(* C11  No duplicate SKU lookup calls.                                     *)
(***************************************************************************)
\* the getVariantBySku calls issued so far: the position of the unique row
\* and the position of the call among the row's lookups
SkuLookups ==
    {c \in (DOMAIN lookupCalls) \X (1..Len(StageOrder)) :
        c[2] <= Len(lookupCalls[c[1]]) /\ lookupCalls[c[1]][c[2]] \in {"sku", "itemCode"}}

\* the SKU value a getVariantBySku call was issued with
SkuLookedUp(c) == uniqueRows[c[1]][lookupCalls[c[1]][c[2]]]

\* C11 as stated: in one run getVariantBySku is never called twice with the
\* same SKU value, whatever the other identifiers of the rows are.
NoDuplicateSkuLookup ==
    \A c, d \in SkuLookups : SkuLookedUp(c) = SkuLookedUp(d) => c = d

(***************************************************************************)
(* C12  Variant cascade: first success wins.                               *)
(***************************************************************************)
\* the place of an identifier in the order SKU, item code, barcode, handle, title
Rank(stage) ==
    CASE stage = "sku" -> 1 [] stage = "itemCode" -> 2 [] stage = "variantBarcode" -> 3
      [] stage = "handle" -> 4 [] stage = "title" -> 5

ExactStages == {"sku", "itemCode", "variantBarcode"}

\* the variants the step of an identifier of the row yields: what its lookup
\* returns, for a handle or a title filtered by the row's option values
Yield(row, stage) ==
    CASE stage = "sku" -> getVariantBySku(row.sku)
      [] stage = "itemCode" -> getVariantBySku(row.itemCode)
      [] stage = "variantBarcode" -> getVariantByBarcode(row.variantBarcode)
      [] stage = "handle" ->
            matchVariantsByOptions(getVariantsByHandle(row.handle), row.optionValues)
      [] stage = "title" ->
            matchVariantsByOptions(getVariantsByTitle(row.title), row.optionValues)

\* resolveVariant has returned for the unique row at position i, and none of
\* its lookups threw
Settled(i) ==
    /\ lookupStage[i] = "done"
    /\ buildIdentifierKey(uniqueRows[i]) \in DOMAIN variantByIdentifier
    /\ variantByIdentifier[buildIdentifierKey(uniqueRows[i])].reason.msg # "Lookup error"

\* the last lookup issued for the unique row at position i
LastCall(i) == lookupCalls[i][Len(lookupCalls[i])]

\* C12: the lookups of a row are issued in the order SKU, item code, barcode,
\* handle, title, for identifiers that are not empty and without skipping one
\* that is not empty; no lookup follows a step that yielded a variant; when a
\* SKU, item code or barcode lookup finds nothing the next identifier is
\* looked up; a variant found by such a lookup is the resolution, and a
\* resolution that failed has a reason.
CascadeFirstSuccessWins ==
    \A i \in DOMAIN lookupCalls :
        /\ \A k \in DOMAIN lookupCalls[i] :
              /\ uniqueRows[i][lookupCalls[i][k]] # <<>>
              /\ k > 1 => Rank(lookupCalls[i][k - 1]) < Rank(lookupCalls[i][k])
              /\ k < Len(lookupCalls[i]) => Yield(uniqueRows[i], lookupCalls[i][k]) = <<>>
              /\ \A s \in Range(StageOrder) :
                    (uniqueRows[i][s] # <<>> /\ Rank(s) < Rank(lookupCalls[i][k]))
                    => s \in Range(lookupCalls[i])
        /\ (Settled(i) /\ LastCall(i) \in ExactStages) =>
              IF Yield(uniqueRows[i], LastCall(i)) = <<>>
              THEN /\ \A s \in Range(StageOrder) :
                         Rank(s) > Rank(LastCall(i)) => uniqueRows[i][s] = <<>>
                   /\ ~variantOf(uniqueRows[i]).found
              ELSE /\ variantOf(uniqueRows[i]).found
                   /\ variantOf(uniqueRows[i]).inventoryItemId
                         = Yield(uniqueRows[i], LastCall(i))[1].inventoryItemId
        /\ (Settled(i) /\ ~variantOf(uniqueRows[i]).found) =>
              variantOf(uniqueRows[i]).reason.msg # ""

\* a run that returned after one row was resolved by its barcode once its SKU
\* was not found, and another by its SKU without a lookup of its title
CascadeWitness ==
    /\ phase = "done"
    /\ \E i, j \in DOMAIN lookupCalls :
          /\ lookupCalls[i] = <<"sku", "variantBarcode">>
          /\ Settled(i) /\ variantOf(uniqueRows[i]).found
          /\ lookupCalls[j] = <<"sku">> /\ uniqueRows[j].title # <<>>
          /\ Settled(j) /\ variantOf(uniqueRows[j]).found

(***************************************************************************)
(* C13  The handle step.                                                   *)
(***************************************************************************)
\* the variants that have every option value of the row among their selected
\* option values, both trimmed and lower-cased
PassingOptions(variants, row) ==
    SelectSeq(variants,
              LAMBDA v : \A k \in DOMAIN row.optionValues :
                            \E m \in DOMAIN v.selectedOptionValues :
                                ToLowerCase(Trim(v.selectedOptionValues[m]))
                                    = ToLowerCase(Trim(row.optionValues[k])))

\* the variants whose title is the row's title, both trimmed and lower-cased
TitledAs(variants, row) ==
    SelectSeq(variants,
              LAMBDA v : ToLowerCase(Trim(v.title)) = ToLowerCase(Trim(row.title)))

\* the handle lookup of the unique row at position i has returned
HandleReturned(i) ==
    /\ "handle" \in Range(lookupCalls[i])
    /\ LastCall(i) # "handle" \/ Settled(i)

\* the resolution of the unique row at position i is this variant
ResolvedTo(i, variant) ==
    /\ variantOf(uniqueRows[i]).found
    /\ variantOf(uniqueRows[i]).inventoryItemId = variant.inventoryItemId

\* the resolution of the unique row at position i failed with this message,
\* and the handle lookup is the last lookup issued for the row
FailedAtHandle(i, msg) ==
    /\ LastCall(i) = "handle"
    /\ ~variantOf(uniqueRows[i]).found
    /\ variantOf(uniqueRows[i]).reason.msg = msg

\* what the handle step has done once the handle lookup of the unique row at
\* position i returned `variants`, of which `passing` pass the option filter
HandleStepOf(i, variants, passing) ==
    IF variants = <<>> THEN FailedAtHandle(i, "No product found for handle")
    ELSE IF Len(passing) = 1 THEN LastCall(i) = "handle" /\ ResolvedTo(i, passing[1])
    ELSE IF Len(passing) > 1
    THEN IF uniqueRows[i].title # <<>> /\ Len(TitledAs(passing, uniqueRows[i])) = 1
         THEN LastCall(i) = "handle" /\ ResolvedTo(i, TitledAs(passing, uniqueRows[i])[1])
         ELSE FailedAtHandle(i, "Handle matched multiple variants; provide SKU or barcode")
    ELSE IF uniqueRows[i].title # <<>> THEN LastCall(i) = "title"
    ELSE FailedAtHandle(i, "No matching variant by SKU, barcode, handle, or title")

\* C13: once the handle lookup returned: no variants fails the resolution
\* ('No product found for handle') without a title lookup; one variant passing
\* the option filter is the resolution; of several passing, the only one whose
\* title is the row's is the resolution, and the resolution fails ('matched
\* multiple variants') without a title lookup when there is no such one; when
\* none passes the title is looked up if the row has one, and the resolution
\* fails if not.
HandleStep ==
    \A i \in DOMAIN lookupCalls :
        HandleReturned(i) =>
            HandleStepOf(i, getVariantsByHandle(uniqueRows[i].handle),
                         PassingOptions(getVariantsByHandle(uniqueRows[i].handle),
                                        uniqueRows[i]))

\* a run that returned after one row was resolved by its title among the
\* variants of its handle, and the title of another was looked up after no
\* variant of its handle passed the option filter
HandleStepWitness ==
    /\ phase = "done"
    /\ \E i, j \in DOMAIN lookupCalls :
          /\ lookupCalls[i] = <<"handle">> /\ Settled(i)
          /\ Len(PassingOptions(getVariantsByHandle(uniqueRows[i].handle), uniqueRows[i])) > 1
          /\ variantOf(uniqueRows[i]).found
          /\ lookupCalls[j] = <<"handle", "title">> /\ Settled(j)

(***************************************************************************)
(* C14  Fuzzy title acceptance.                                            *)
(***************************************************************************)
\* score >= h / 100
AtLeast(score, h) == score.num * 100 >= h * score.den

\* a - b >= h / 100
LeadAtLeast(a, b, h) == (a.num * b.den - b.num * a.den) * 100 >= h * a.den * b.den

\* the candidate at position a scores at least 0.58 and leads every other
\* candidate by at least 0.08
Accepted(title, candidates, a) ==
    /\ AtLeast(computeTitleSimilarity(title, candidates[a].title), 58)
    /\ \A b \in DOMAIN candidates :
          b # a => LeadAtLeast(computeTitleSimilarity(title, candidates[a].title),
                               computeTitleSimilarity(title, candidates[b].title), 8)

\* the title lookup of the unique row at position i has returned
TitleReturned(i) == "title" \in Range(lookupCalls[i]) /\ Settled(i)

\* what the title step has done with the candidates the search returned
TitleStepOf(i, candidates) ==
    /\ \A a \in DOMAIN candidates :
          Accepted(uniqueRows[i].title, candidates, a) =>
              /\ variantOf(uniqueRows[i]).found
                    <=> Len(PassingOptions(candidates[a].variants, uniqueRows[i])) = 1
              /\ variantOf(uniqueRows[i]).found =>
                    ResolvedTo(i, PassingOptions(candidates[a].variants, uniqueRows[i])[1])
    /\ (\A a \in DOMAIN candidates : ~Accepted(uniqueRows[i].title, candidates, a)) =>
          /\ ~variantOf(uniqueRows[i]).found
          /\ variantOf(uniqueRows[i]).reason.msg = "No product found for title"

BlueHoodie == <<"B", "l", "u", "e", " ", "H", "o", "o", "d", "i", "e">>

\* C14: once the title lookup returned, the candidate that scores at least
\* 0.58 and leads every other candidate by at least 0.08 is accepted, and the
\* row is resolved exactly when one of its variants passes the option filter,
\* to that variant; when there is no such candidate the title step yields no
\* variant.  'Blue Hoodie' against 'Blue Hoodie' and 'Red Hoodie' resolves to
\* the variant of Blue Hoodie.
FuzzyTitleAcceptance ==
    \A i \in DOMAIN lookupCalls :
        TitleReturned(i) =>
            /\ TitleStepOf(i, searchProductsByTitle(uniqueRows[i].title))
            /\ uniqueRows[i].title = BlueHoodie =>
                  /\ Len(searchProductsByTitle(BlueHoodie)) = 2
                  /\ variantOf(uniqueRows[i]).found
                  /\ variantOf(uniqueRows[i]).inventoryItemId = "iB"

\* a run that returned after it resolved 'Blue Hoodie' by its title and set
\* the row's quantity, and found no clear best match for another title
FuzzyTitleWitness ==
    /\ phase = "done"
    /\ \E i, j \in DOMAIN lookupCalls :
          /\ lookupCalls[i] = <<"title">> /\ Settled(i)
          /\ uniqueRows[i].title = BlueHoodie
          /\ variantOf(uniqueRows[i]).found
          /\ \E c \in setCalls : c.inventoryItemId = "iB" /\ c.quantity = 4 /\ c.ok
          /\ lookupCalls[j] = <<"title">> /\ Settled(j)
          /\ Len(searchProductsByTitle(uniqueRows[j].title)) >= 2
          /\ \E a \in DOMAIN searchProductsByTitle(uniqueRows[j].title) :
                AtLeast(computeTitleSimilarity(uniqueRows[j].title,
                                               searchProductsByTitle(uniqueRows[j].title)[a].title),
                        58)
          /\ ~variantOf(uniqueRows[j]).found
          /\ variantOf(uniqueRows[j]).reason.msg = "No product found for title"

(***************************************************************************)
(* C15, C16  The fuzzy title score.                                        *)
(***************************************************************************)
\* the normalized title the products are scored against
LeftText == normalizeTitle(titleSearch.title)

\* the normalized title of the product ranked at position k
RightText(k) == normalizeTitle(titleSearch.rankedProducts[k].product.title)

ScoreAt(k) == titleSearch.rankedProducts[k].score

\* the words of a normalized text
Words(text) == TokensOf(text, <<>>)

\* one text occurs inside the other
OneContainsOther(a, b) ==
    \/ \E i \in 1..(Len(a) + 1) : \E j \in (i - 1)..Len(a) : SubSeq(a, i, j) = b
    \/ \E i \in 1..(Len(b) + 1) : \E j \in (i - 1)..Len(b) : SubSeq(b, i, j) = a

\* the texts agree on their first ten characters, or on all of them when shorter
SameStart(a, b) ==
    \A i \in 1..10 :
        (i <= Len(a) \/ i <= Len(b)) => (i <= Len(a) /\ i <= Len(b) /\ a[i] = b[i])

\* the boosts that apply to a pair of texts, in hundredths
BoostsOf(a, b) ==
    (IF OneContainsOther(a, b) THEN 22 ELSE 0) + (IF SameStart(a, b) THEN 8 ELSE 0)

\* C15 as stated: disjoint word sets score 0 and identical non-empty texts
\* score 1
DisjointScoresZero ==
    \A k \in DOMAIN titleSearch.rankedProducts :
        /\ Words(LeftText) \cap Words(RightText(k)) = {} => ScoreAt(k).num = 0
        /\ (LeftText = RightText(k) /\ LeftText # <<>>) => ScoreAt(k).num = ScoreAt(k).den

\* C15: a pair with an empty normalized text scores 0; a pair of non-empty
\* texts with disjoint word sets scores the boosts that apply to it (0.22
\* when one text contains the other, 0.08 when they start alike), so 0 when
\* none applies; identical non-empty normalized texts score 1
DisjointScoresBoosts ==
    \A k \in DOMAIN titleSearch.rankedProducts :
        /\ (LeftText = <<>> \/ RightText(k) = <<>>) => ScoreAt(k).num = 0
        /\ (/\ LeftText # <<>>
            /\ RightText(k) # <<>>
            /\ Words(LeftText) \cap Words(RightText(k)) = {})
           => ScoreAt(k).num * 100 = ScoreAt(k).den * BoostsOf(LeftText, RightText(k))
        /\ (LeftText = RightText(k) /\ LeftText # <<>>) => ScoreAt(k).num = ScoreAt(k).den

\* 'Hood' is scored against 'hood ' and 'Red Hoodie': 1 and 0.22
DisjointScoresWitness ==
    /\ Len(titleSearch.rankedProducts) = 2
    /\ titleSearch.title # titleSearch.rankedProducts[1].product.title
    /\ LeftText = RightText(1)
    /\ LeftText # <<>>
    /\ ScoreAt(1) = [num |-> 1, den |-> 1]
    /\ Words(LeftText) \cap Words(RightText(2)) = {}
    /\ ScoreAt(2).num * 100 = ScoreAt(2).den * 22

\* the share of the words of two texts that both have
Overlap(a, b) ==
    IF Words(a) \cup Words(b) = {} THEN [num |-> 0, den |-> 1]
    ELSE [num |-> Cardinality(Words(a) \cap Words(b)),
          den |-> Cardinality(Words(a) \cup Words(b))]

ScoreInUnitInterval(score) == score.den > 0 /\ 0 <= score.num /\ score.num <= score.den

\* C16 as stated: the product with the higher overlap never has the lower
\* score, and every score lies in [0, 1]
ScoreFollowsOverlap ==
    \A j, k \in DOMAIN titleSearch.rankedProducts :
        /\ ScoreInUnitInterval(ScoreAt(k))
        /\ ScoreLess(Overlap(LeftText, RightText(k)), Overlap(LeftText, RightText(j)))
           => ~ScoreLess(ScoreAt(j), ScoreAt(k))

\* C16: every score lies in [0, 1], and of two products to which the same
\* boosts apply the one with the higher overlap never has the lower score
ScoreFollowsOverlapAtEqualBoosts ==
    \A j, k \in DOMAIN titleSearch.rankedProducts :
        /\ ScoreInUnitInterval(ScoreAt(k))
        /\ (/\ OneContainsOther(LeftText, RightText(j)) <=> OneContainsOther(LeftText, RightText(k))
            /\ SameStart(LeftText, RightText(j)) <=> SameStart(LeftText, RightText(k))
            /\ ScoreLess(Overlap(LeftText, RightText(k)), Overlap(LeftText, RightText(j))))
           => ~ScoreLess(ScoreAt(j), ScoreAt(k))

\* two products that contain the title, the one of full overlap capped at 1
\* and ranked before the one of lower overlap
ScoreFollowsOverlapWitness ==
    /\ Len(titleSearch.rankedProducts) = 2
    /\ LeftText # RightText(1)
    /\ OneContainsOther(LeftText, RightText(1)) /\ OneContainsOther(LeftText, RightText(2))
    /\ ~SameStart(LeftText, RightText(1)) /\ ~SameStart(LeftText, RightText(2))
    /\ Overlap(LeftText, RightText(1)) = [num |-> 2, den |-> 2]
    /\ Overlap(LeftText, RightText(2)) = [num |-> 2, den |-> 3]
    /\ ScoreAt(1) = [num |-> 1, den |-> 1]
    /\ ScoreLess(ScoreAt(2), ScoreAt(1))

(***************************************************************************)
(* C17, C18  The location of a row.                                        *)
(***************************************************************************)
\* processRow returned the failure of an unresolved location for row i
FailedForLocation(i) ==
    /\ rowState[i].stage = "done"
    /\ rowState[i].out[1].bucket = "failed"
    /\ rowState[i].out[1].payload.reason.msg
          = "Location is ambiguous. Add location in file or set defaultLocationName in config"

\* resolveLocationForRow has returned for row i
LocationDecided(i) ==
    /\ i \in DOMAIN rowState
    /\ (rowState[i].location # NoLocation \/ FailedForLocation(i))

\* the positions of the remote locations of a trimmed, lower-cased name
Named(name) == {k \in DOMAIN locations : ToLowerCase(Trim(locations[k].name)) = name}

\* the positions of the remote locations that hold inventory of an item
Holding(item) == {k \in DOMAIN locations : shop[<<item, locations[k].id>>] # NoQty}

\* row i got one of the locations at the positions, or none when there is none
LocationAmong(i, positions) ==
    IF positions = {} THEN FailedForLocation(i)
    ELSE \E k \in positions : rowState[i].location = locations[k]

\* the location the cascade gives row i
CascadeLocation(i, name, default) ==
    IF name # <<>> THEN LocationAmong(i, Named(name))
    ELSE IF Len(locations) = 1 THEN LocationAmong(i, {1})
    ELSE IF Cardinality(Holding(variantOf(dedupedRows[i]).inventoryItemId)) = 1
    THEN LocationAmong(i, Holding(variantOf(dedupedRows[i]).inventoryItemId))
    ELSE IF default # <<>> THEN LocationAmong(i, Named(default))
    ELSE FailedForLocation(i)

\* C17: in the step in which the location of a row is decided, a row that
\* names a location gets the remote location of that trimmed lower-cased name
\* and fails when there is none; a row that names none gets the sole location
\* of the shop, else the single location that holds inventory of its item,
\* else the location of the configured default name, else it fails
LocationCascade ==
    [][\A i \in DOMAIN rowState' :
          (LocationDecided(i)' /\ ~LocationDecided(i)) =>
              CascadeLocation(i, ToLowerCase(Trim(dedupedRows[i].shopifyLocationName)),
                              ToLowerCase(Trim(defaultLocationName)))']_vars

\* a run of a shop of two locations with a default location: one row got the
\* default location because its item is held at both locations or at none,
\* the other names an unknown location and failed
LocationCascadeWitness ==
    /\ phase = "done"
    /\ Len(locations) = 2
    /\ \E i, j \in DOMAIN rowState :
          /\ dedupedRows[i].shopifyLocationName = <<>>
          /\ Len(rowCalls[i]) >= 2
          /\ rowCalls[i][1] = "itemLocs"
          /\ rowState[i].location.id = "L2"
          /\ Named(ToLowerCase(Trim(defaultLocationName))) = {2}
          /\ dedupedRows[j].shopifyLocationName = <<"Q">>
          /\ FailedForLocation(j)

\* the entries of a bucket of the summary that report row i
ReportsOf(bucket, i) == EntriesOf(summary, bucket, dedupedRows[i].rowNumber)

\* C18: a row of a resolved variant that ended without a location and
\* without a failing call is once in failed, with the 'Location is
\* ambiguous' reason, and in no other bucket; neither the current quantity was
\* read nor a quantity set for it
UnresolvedLocationFails ==
    \A i \in DOMAIN rowState :
        (/\ rowState[i].stage = "done"
         /\ rowState[i].location = NoLocation
         /\ variantOf(dedupedRows[i]).found
         /\ ~rowFault[i])
        => /\ Len(ReportsOf("failed", i)) = 1
           /\ ReportsOf("failed", i)[1].reason
                 = Message("Location is ambiguous. Add location in file or set defaultLocationName in config")
           /\ ReportsOf("updated", i) = <<>>
           /\ ReportsOf("skipped", i) = <<>>
           /\ "current" \notin Range(rowCalls[i])
           /\ "set" \notin Range(rowCalls[i])
           /\ \A c \in setCalls : c.rowNumber # dedupedRows[i].rowNumber

\* a run that returned after a row whose item is held at two locations failed
\* for its location once its holding locations were queried
UnresolvedLocationWitness ==
    /\ phase = "done"
    /\ \E i \in DOMAIN rowState :
          /\ variantOf(dedupedRows[i]).found
          /\ rowCalls[i] = <<"itemLocs">>
          /\ ~rowFault[i]
          /\ Cardinality(Holding(variantOf(dedupedRows[i]).inventoryItemId)) = 2
          /\ rowState[i].location = NoLocation
          /\ Len(ReportsOf("failed", i)) = 1

(***************************************************************************)
(* C19, C20  The quantity of a row.                                        *)
(***************************************************************************)
\* parseQuantity of the cell of a column of the row, no number when the sheet
\* has no such column
ValueOf(row, header) ==
    IF header \in DOMAIN row THEN parseQuantity(row[header]) ELSE NoNumber

\* the columns of the closing-stock family of a row whose value parses
ParsedClosing(row) ==
    {h \in Range(Columns.closingStock) \cap DOMAIN row : parseQuantity(row[h]).ok}

\* q = max(0, round(value)), the value in tenths: the nearest integer, a half
\* going up
IsMaxZeroRound(q, tenths) ==
    \E n \in (0 - 100)..100 :
        /\ 10 * n - 5 <= tenths
        /\ tenths < 10 * n + 5
        /\ q = IF n < 0 THEN 0 ELSE n

\* the row at position k of the sheet was parsed with a quantity that is
\* max(0, round(value)) and with a source
ParsedWith(k, tenths, source) ==
    \E j \in DOMAIN parsedRows :
        /\ parsedRows[j].rowNumber = k + 1
        /\ IsMaxZeroRound(parsedRows[j].quantity, tenths)
        /\ parsedRows[j].calculationSource = source

\* the headers of the identifier columns
IdentifierHeaders ==
    Range(Columns.sku) \cup Range(Columns.itemCode) \cup Range(Columns.handle)
    \cup Range(Columns.barcode) \cup Range(Columns.title)

\* the row has an identifier
Identified(row) ==
    \E h \in IdentifierHeaders \cap DOMAIN row : row[h].t = "num" \/ Trim(row[h].s) # <<>>

\* C19: every row with an identifier and a parseable value in a column of the
\* closing-stock family has the quantity max(0, round(value)) of such a value
\* and the source closing_stock_direct
ClosingStockWins ==
    phase # "idle" =>
        \A k \in DOMAIN file :
            (Identified(file[k]) /\ ParsedClosing(file[k]) # {}) =>
                \E h \in ParsedClosing(file[k]) :
                    ParsedWith(k, parseQuantity(file[k][h]).tenths, "closing_stock_direct")

\* the value a rule of the cascade rounds, in tenths
Missing0(n) == IF n.ok THEN n.tenths ELSE 0

\* the cascade on the values of the opening, movement, inward and outward
\* columns of the row at position k
CascadeOf(k, opening, movement, inward, outward) ==
    IF opening.ok /\ movement.ok
    THEN ParsedWith(k, opening.tenths + movement.tenths, "opening_plus_movement")
    ELSE IF opening.ok /\ (inward.ok \/ outward.ok)
    THEN ParsedWith(k, opening.tenths + Missing0(inward) - Missing0(outward),
                    "opening_plus_inward_minus_outward")
    ELSE IF opening.ok
    THEN ParsedWith(k, opening.tenths, "opening_stock_fallback")
    ELSE \A j \in DOMAIN parsedRows : parsedRows[j].rowNumber # k + 1

ParsedWithQuantity(k, tenths) ==
    \E j \in DOMAIN parsedRows :
        /\ parsedRows[j].rowNumber = k + 1
        /\ IsMaxZeroRound(parsedRows[j].quantity, tenths)

\* C21: a row without a closing stock that has an opening stock but not both
\* an opening stock and a stock movement gets the opening stock as its
\* quantity, whatever its other columns hold
OpeningStockFallback ==
    phase # "idle" =>
        \A k \in DOMAIN file :
            (/\ Identified(file[k])
             /\ ParsedClosing(file[k]) = {}
             /\ ValueOf(file[k], "opening stock").ok
             /\ ~ValueOf(file[k], "stock movement").ok)
            => ParsedWithQuantity(k, ValueOf(file[k], "opening stock").tenths)

(***************************************************************************)
(* C22  Recognized empty tokens.                                           *)
(***************************************************************************)
\* the trimmed, lower-cased text is a recognized empty token
RecognizedEmpty(text) ==
    ToLowerCase(Trim(text))
        \in { <<"n", "o", "t", " ", "s", "t", "o", "c", "k", "e", "d">>, <<"n", "/", "a">>,
              <<"n", "a">>, <<"n", "o", "n", "e">>, <<"n", "u", "l", "l">>, <<"-">> }

\* a text with a character no number has, that is no recognized empty token
OtherText(text) ==
    /\ ~RecognizedEmpty(text)
    /\ \E i \in DOMAIN text : text[i] \notin Digits \cup {".", ",", " ", "-"}

\* the text of a column of the row, as a sequence of at most one text
TextOf(row, header) ==
    IF header \in DOMAIN row /\ row[header].t = "str" THEN <<row[header].s>> ELSE <<>>

\* the entries of skipped that report the row at position k of the sheet
SkipsOf(k) == EntriesOf(summary, "skipped", k + 1)

\* what became of the row at position k, given the texts of its closing stock
\* and inward stock columns
TokenOutcome(k, closing, inward) ==
    /\ (closing # <<>> /\ RecognizedEmpty(closing[1])) =>
          /\ ParsedWith(k, 0, "closing_stock_direct")
          /\ SkipsOf(k) = <<>>
    /\ (closing # <<>> /\ OtherText(closing[1])) =>
          CascadeOf(k, ValueOf(file[k], "opening stock"), ValueOf(file[k], "stock movement"),
                    ValueOf(file[k], "inward stock"), ValueOf(file[k], "out qty"))
    /\ (/\ inward # <<>> /\ RecognizedEmpty(inward[1])
        /\ ParsedClosing(file[k]) = {}
        /\ ValueOf(file[k], "opening stock").ok
        /\ ~ValueOf(file[k], "stock movement").ok) =>
          ParsedWith(k, ValueOf(file[k], "opening stock").tenths
                          - Missing0(ValueOf(file[k], "out qty")),
                     "opening_plus_inward_minus_outward")

MissingIdentifiersFirst ==
    phase # "idle" =>
        \A k \in DOMAIN file :
            ~Identified(file[k]) =>
                /\ Len(SkipsOf(k)) = 1
                /\ SkipsOf(k)[1].reason.msg = "Missing identifiers"
                /\ \A j \in DOMAIN parsedRows : parsedRows[j].rowNumber # k + 1
                /\ EntriesOf(summary, "failed", k + 1) = <<>>
                /\ EntriesOf(summary, "updated", k + 1) = <<>>

\* a row with a blank SKU and no stock value that parses was skipped for its
\* missing identifiers
MissingIdentifiersWitness ==
    /\ phase = "done"
    /\ Len(file) = 1
    /\ ~Identified(file[1])
    /\ "closing stock" \in DOMAIN file[1]
    /\ ParsedClosing(file[1]) = {}
    /\ ~ValueOf(file[1], "opening stock").ok
    /\ Len(summary.skipped) = 1
    /\ summary.skipped[1].reason.msg = "Missing identifiers"
    /\ parsedRows = <<>>

(***************************************************************************)
(* C23  A row without a quantity.                                          *)
(***************************************************************************)
\* the columns of the opening-stock family of a row whose value parses
ParsedOpening(row) ==
    {h \in Range(Columns.openingStock) \cap DOMAIN row : parseQuantity(row[h]).ok}

\* the row numbers of a sequence of rows
RowNumbersOf(rows) == {rows[j].rowNumber : j \in DOMAIN rows}

\* C23: a row with an identifier of which neither a closing-stock value nor
\* an opening-stock value parses is once in skipped, with the source
\* missing_stock_fields and the missing-stock reason, and in no other bucket;
\* it is no parsed row, no row of the deduplication or of the variant lookup,
\* and no quantity is set for it
MissingQuantitySkipped ==
    phase # "idle" =>
        \A k \in DOMAIN file :
            (/\ Identified(file[k])
             /\ ParsedClosing(file[k]) = {}
             /\ ParsedOpening(file[k]) = {})
            => /\ Len(SkipsOf(k)) = 1
               /\ SkipsOf(k)[1].calculationSource = "missing_stock_fields"
               /\ SkipsOf(k)[1].reason = Message("Missing stock values")
               /\ EntriesOf(summary, "failed", k + 1) = <<>>
               /\ EntriesOf(summary, "updated", k + 1) = <<>>
               /\ k + 1 \notin RowNumbersOf(parsedRows) \cup RowNumbersOf(dedupedRows)
                                 \cup RowNumbersOf(uniqueRows)
               /\ \A c \in setCalls : c.rowNumber # k + 1

\* a run that returned after it skipped a row of SKU y for its missing
\* quantity and set the quantity of another row of SKU y
MissingQuantityWitness ==
    /\ phase = "done"
    /\ \E k \in DOMAIN file :
          /\ Identified(file[k])
          /\ ParsedClosing(file[k]) = {}
          /\ ParsedOpening(file[k]) = {}
          /\ Len(SkipsOf(k)) = 1
          /\ SkipsOf(k)[1].sku = <<"y">>
    /\ \E c \in setCalls : c.inventoryItemId = "iY" /\ c.ok

(***************************************************************************)
(* C25  Quantities are natural numbers.                                    *)
(***************************************************************************)
\* C25: the quantity of every parsed row, of every deduplicated row (the
\* representatives of aggregated bins included) and of every call that sets a
\* quantity is a non-negative integer
QuantityInvariant ==
    /\ \A j \in DOMAIN parsedRows : parsedRows[j].quantity \in Nat
    /\ \A i \in DOMAIN dedupedRows : dedupedRows[i].quantity \in Nat
    /\ \A c \in setCalls : c.quantity \in Nat

\* a run that returned after it set the quantity 3 for two bins whose closing
\* stocks are 2.5 and -1.5
QuantityInvariantWitness ==
    /\ phase = "done"
    /\ Len(file) = 2
    /\ file[1]["closing stock"] = StrCell(<<"2", ".", "5">>)
    /\ file[2]["closing stock"] = StrCell(<<"-", "1", ".", "5">>)
    /\ Len(dedupedRows) = 1
    /\ dedupedRows[1].calculationSource = "aggregated_from_bins"
    /\ \E c \in setCalls : c.quantity = 3 /\ c.ok

(***************************************************************************)
(* C26, C27  withRetry.                                                    *)
(***************************************************************************)
\* the error of an HTTP 429 response
IsThrottle(error) == error.name = "HttpLikeError" /\ error.statusCode = 429

\* what holds of a withRetry call at every moment
RetryBounds ==
    retry.status # "idle" =>
        /\ retry.issued <= retry.maxRetries + 1
        /\ retry.issued = Len(retry.delays) + 1
        /\ \A k \in DOMAIN retry.delays :
              /\ retry.delays[k] = retry.retryBaseDelayMs * k
              /\ IsThrottle(retry.caught[k])
        /\ (retry.status = "thrown" /\ IsThrottle(retry.thrown[1])) =>
              /\ retry.issued = retry.maxRetries + 1
              /\ \A k \in DOMAIN retry.caught : IsThrottle(retry.caught[k])
        /\ retry.status = "returned" =>
              /\ retry.result \in OperationResults
              /\ retry.issued = Len(retry.caught) + 1
              /\ \A k \in DOMAIN retry.caught : IsThrottle(retry.caught[k])

\* C26: the operation is issued again at most maxRetries times, each time
\* after an HTTP 429 and after a wait of retryBaseDelayMs * k for the k-th
\* time; the 429 is thrown only once the operation was issued maxRetries + 1
\* times; once the operation succeeded its result is returned and it is not
\* issued again
RetryOnThrottle ==
    /\ []RetryBounds
    /\ [][retry.status = "returned" => retry' = retry]_vars

\* a call with maxRetries 3 and a base delay of 2 threw the 429 after waits of
\* 2, 4 and 6
RetryOnThrottleWitness ==
    /\ retry.status = "thrown"
    /\ IsThrottle(retry.thrown[1])
    /\ retry.maxRetries = 3
    /\ retry.delays = <<2, 4, 6>>
    /\ retry.issued = 4

\* C27: an error that is no HTTP 429 is the last one caught: it is thrown
\* as it is, without a wait and without the operation being issued again, so
\* an operation whose first error is no 429 is issued once; the user errors of
\* a mutation come with a result, after which nothing is issued either
OnlyThrottleRetried ==
    /\ \A i \in DOMAIN retry.caught :
          ~IsThrottle(retry.caught[i]) =>
              /\ i = Len(retry.caught)
              /\ retry.status = "thrown"
              /\ retry.thrown = <<retry.caught[i]>>
              /\ retry.issued = i
              /\ Len(retry.delays) = i - 1
    /\ (retry.status = "returned" /\ retry.result = "data with userErrors") =>
          /\ retry.issued = Len(retry.caught) + 1
          /\ Len(retry.delays) = Len(retry.caught)

\* a call with maxRetries 3 threw the GraphQL error of a 200 response at once
OnlyThrottleWitness ==
    /\ retry.status = "thrown"
    /\ retry.maxRetries = 3
    /\ retry.thrown[1].message = "Throttled"
    /\ retry.issued = 1
    /\ retry.delays = <<>>

(***************************************************************************)
(* C28, C29  Batches of the prefetch and of the row processing.            *)
(***************************************************************************)
\* the batch of the item at position i: chunk slices max(1, batchSize) items
BatchOf(i) == (i - 1) \div (IF batchSize < 1 THEN 1 ELSE batchSize) + 1

\* resolveVariant was called for unique row j / has settled for unique row i
LookupStarted(j) == lookupStage[j] # "pending" \/ lookupCalls[j] # <<>>
LookupSettled(i) == lookupStage[i] \in {"none", "done"}

\* processRow was called for row j / has settled for row i
RowStarted(j) == rowState[j].stage # "pending" \/ rowCalls[j] # <<>>
RowSettled(i) == rowState[i].stage = "done"

\* C28: once anything was started on behalf of a member of a batch, every
\* member of every earlier batch of the phase has settled (its calls
\* returned or threw), in the prefetch and in the row processing; and no row
\* is processed before the prefetch has settled for every key
BatchOrdering ==
    /\ \A i, j \in DOMAIN lookupStage :
          (BatchOf(i) < BatchOf(j) /\ LookupStarted(j)) => LookupSettled(i)
    /\ \A i, j \in DOMAIN rowState :
          (BatchOf(i) < BatchOf(j) /\ RowStarted(j)) => RowSettled(i)
    /\ \A j \in DOMAIN rowState :
          RowStarted(j) => \A i \in DOMAIN lookupStage : LookupSettled(i)

\* batches of one row: the second row awaits a remote call, after the first
\* row made its calls and settled, and after two prefetch batches
BatchOrderingWitness ==
    /\ phase = "process"
    /\ batchSize = 1
    /\ Len(rowState) >= 2
    /\ Len(lookupStage) >= 2
    /\ rowCalls[1] # <<>> /\ RowSettled(1)
    /\ RowStarted(2) /\ ~RowSettled(2)
    /\ lookupCalls[1] # <<>> /\ lookupCalls[2] # <<>>

\* the largest number of members of a batch
FanOut(size) == IF size < 1 THEN 1 ELSE size

\* chunk of n items by size: every batch but the last holds exactly
\* max(1, size) items and the last at least one, a batch holds consecutive
\* items, the batches follow the input order, and every item is in exactly
\* one batch
ChunkPartition(n, size) ==
    /\ \A b \in 1..chunkCount(n, size) :
          /\ chunkMembers(n, size, b) # {}
          /\ Cardinality(chunkMembers(n, size, b)) <= FanOut(size)
          /\ b < chunkCount(n, size) =>
                Cardinality(chunkMembers(n, size, b)) = FanOut(size)
          /\ \A i, j \in chunkMembers(n, size, b) :
                \A k \in i..j : k \in chunkMembers(n, size, b)
          /\ \A c \in 1..chunkCount(n, size) :
                b < c => \A i \in chunkMembers(n, size, b) :
                            \A j \in chunkMembers(n, size, c) : i < j
    /\ \A i \in 1..n :
          Cardinality({b \in 1..chunkCount(n, size) : i \in chunkMembers(n, size, b)}) = 1

\* the keys and the rows that have processing in flight
LookupsInFlight == {i \in DOMAIN lookupStage : LookupStarted(i) /\ ~LookupSettled(i)}
RowsInFlight == {i \in DOMAIN rowState : RowStarted(i) /\ ~RowSettled(i)}

\* C29: at most max(1, batchSize) keys and at most max(1, batchSize) rows
\* have processing in flight, all of them members of the current batch; the
\* batches of the unique rows and of the deduplicated rows, and the batches
\* chunk makes of any number of items by any size from 0, partition the
\* items in input order into batches of exactly max(1, size) items but for
\* the last
BoundedFanOut ==
    /\ Cardinality(LookupsInFlight) <= FanOut(batchSize)
    /\ Cardinality(RowsInFlight) <= FanOut(batchSize)
    /\ LookupsInFlight \subseteq chunkMembers(Len(uniqueRows), batchSize, batchNo)
    /\ RowsInFlight \subseteq chunkMembers(Len(dedupedRows), batchSize, batchNo)
    /\ \A j \in DOMAIN lookupStage :
          \A i \in LookupsInFlight : LookupStarted(j) => BatchOf(j) <= BatchOf(i)
    /\ \A j \in DOMAIN rowState :
          \A i \in RowsInFlight : RowStarted(j) => BatchOf(j) <= BatchOf(i)
    /\ ChunkPartition(Len(uniqueRows), batchSize)
    /\ ChunkPartition(Len(dedupedRows), batchSize)
    /\ \A n \in 0..(MaxRows + 1) : \A size \in 0..MaxBatchSize : ChunkPartition(n, size)

\* three rows in batches of two: the two rows of the first batch await a
\* remote call at once, the third row has not started
BoundedFanOutWitness ==
    /\ phase = "process"
    /\ batchSize = 2
    /\ Len(dedupedRows) = 3
    /\ RowsInFlight = {1, 2}
    /\ ~RowStarted(3)

(***************************************************************************)
(* C30  Errors of the prefetch.                                            *)
(***************************************************************************)
\* the identity key of the unique row at position i
KeyAt(i) == buildIdentifierKey(uniqueRows[i])

\* the reason 'Lookup error: <message>' of the error the remote call threw
LookupErrorReason == Reason("Lookup error", <<>>, NoQty, remoteErrorMessage)

\* the cache holds a failed resolution with that reason for the key
LookupFailed(cache, key) ==
    /\ key \in DOMAIN cache
    /\ ~cache[key].found
    /\ cache[key].reason = LookupErrorReason

\* what the cascade of the row gives from the lookup of `stage` on when no
\* lookup throws
RECURSIVE CascadeResult(_, _)
CascadeResult(row, stage) ==
    IF stage = "none" THEN noMatchingVariant
    ELSE IF resolveStep(row, stage).done THEN resolveStep(row, stage).resolution
    ELSE CascadeResult(row, resolveStep(row, stage).next)

\* a lookup of the prefetch throws in this step
LookupThrown == phase = "prefetch" /\ faults' = faults + 1

\* the step stores the failed resolution for the key of one awaited lookup,
\* settles that key alone and leaves the run, the other keys and the
\* summary as they are
CapturedForKey ==
    \E i \in LookupsInFlight :
        /\ LookupFailed(variantByIdentifier', KeyAt(i))
        /\ DOMAIN variantByIdentifier' = DOMAIN variantByIdentifier \cup {KeyAt(i)}
        /\ \A k \in DOMAIN variantByIdentifier \ {KeyAt(i)} :
              variantByIdentifier'[k] = variantByIdentifier[k]
        /\ lookupStage' = [lookupStage EXCEPT ![i] = "done"]
        /\ phase' = "prefetch"
        /\ batchNo' = batchNo
        /\ summary' = summary

\* a key enters the failed resolutions of the cache in this step
FailureStored ==
    \E k \in DOMAIN variantByIdentifier' :
        /\ LookupFailed(variantByIdentifier', k)
        /\ ~LookupFailed(variantByIdentifier, k)

\* the run was not aborted by the prefetch; a key that settled has its
\* resolution in the cache, the failed one or the one of its cascade; a row
\* that returned and whose key has the failed resolution is reported once, as
\* failed with that reason, and made no remote call; a run that returned has
\* settled every key and every row
LookupErrorsKept ==
    /\ phase = "aborted" => variantByIdentifier = <<>>
    /\ Cardinality({i \in DOMAIN lookupStage :
                       LookupFailed(variantByIdentifier, KeyAt(i))}) <= faults
    /\ \A i \in DOMAIN lookupStage :
          LookupSettled(i) =>
              \/ LookupFailed(variantByIdentifier, KeyAt(i))
              \/ /\ KeyAt(i) \in DOMAIN variantByIdentifier
                 /\ variantByIdentifier[KeyAt(i)]
                       = CascadeResult(uniqueRows[i], stageFrom(uniqueRows[i], 1))
    /\ \A i \in DOMAIN rowState :
          (RowSettled(i)
           /\ LookupFailed(variantByIdentifier, buildIdentifierKey(dedupedRows[i])))
          => /\ ReportsOf("failed", i)
                   = <<RowResult(dedupedRows[i], dedupedRows[i].sku,
                                 dedupedRows[i].shopifyLocationName, LookupErrorReason)>>
             /\ ReportsOf("updated", i) = <<>>
             /\ ReportsOf("skipped", i) = <<>>
             /\ rowCalls[i] = <<>>
    /\ (phase = "done" /\ uniqueRows # <<>>) =>
          /\ \A i \in DOMAIN lookupStage : LookupSettled(i)
          /\ \A i \in DOMAIN rowState : RowSettled(i)

\* C30: a lookup that throws during the prefetch stores the failed resolution
\* with the reason 'Lookup error: <message>' for its key and nothing else,
\* and a failed resolution is stored by no other step; the run goes on, the
\* other keys of the batch and of the later batches get the resolution of
\* their cascade, and every deduplicated row of the failed key is reported as
\* failed with that reason
LookupErrorsCaptured ==
    /\ []LookupErrorsKept
    /\ [][(LookupThrown => CapturedForKey) /\ (FailureStored => LookupThrown)]_vars

\* a run in batches of two that returned: the lookup of the first key threw
\* and its row failed with the reason, the second key of the batch and the key
\* of the next batch were resolved to variants after it
LookupErrorsWitness ==
    /\ phase = "done"
    /\ batchSize = 2
    /\ Len(uniqueRows) = 3
    /\ LookupFailed(variantByIdentifier, KeyAt(1))
    /\ variantByIdentifier[KeyAt(2)].found
    /\ variantByIdentifier[KeyAt(3)].found
    /\ lookupCalls[3] # <<>>
    /\ \E i \in DOMAIN rowState :
          /\ buildIdentifierKey(dedupedRows[i]) = KeyAt(1)
          /\ Len(ReportsOf("failed", i)) = 1

(***************************************************************************)
(* C31  The identity key.                                                  *)
(***************************************************************************)
\* a lower-case letter and its capital
CasePairs ==
    {<<"a", "A">>, <<"b", "B">>, <<"c", "C">>, <<"d", "D">>, <<"e", "E">>, <<"f", "F">>,
     <<"g", "G">>, <<"h", "H">>, <<"i", "I">>, <<"j", "J">>, <<"k", "K">>, <<"l", "L">>,
     <<"m", "M">>, <<"n", "N">>, <<"o", "O">>, <<"p", "P">>, <<"q", "Q">>, <<"r", "R">>,
     <<"s", "S">>, <<"t", "T">>, <<"u", "U">>, <<"v", "V">>, <<"w", "W">>, <<"x", "X">>,
     <<"y", "Y">>, <<"z", "Z">>}

\* the character in the other letter case
OtherCase(c) ==
    IF \E p \in CasePairs : p[1] = c THEN (CHOOSE p \in CasePairs : p[1] = c)[2]
    ELSE IF \E p \in CasePairs : p[2] = c THEN (CHOOSE p \in CasePairs : p[2] = c)[1]
    ELSE c

\* two texts that differ by letter case at most
SameButCase(a, b) ==
    /\ Len(a) = Len(b)
    /\ \A k \in DOMAIN a : a[k] = b[k] \/ a[k] = OtherCase(b[k])

\* the texts that differ from a text by the case of its letters or by a
\* blank at an end
Respelled(value) ==
    {value, <<" ">> \o value, value \o <<" ">>, <<" ">> \o value \o <<" ", " ">>,
     [k \in DOMAIN value |-> OtherCase(value[k])],
     [k \in DOMAIN value |-> IF k = 1 THEN OtherCase(value[k]) ELSE value[k]],
     <<" ">> \o [k \in DOMAIN value |-> OtherCase(value[k])] \o <<" ">>}

IdentityFields == {"sku", "itemCode", "variantBarcode", "handle", "title"}

\* the rows that differ from a row by the spelling of one identifier, of its
\* first option value, or of all of them
RespelledRows(row) ==
    UNION {{[row EXCEPT ![f] = v] : v \in Respelled(row[f])} : f \in IdentityFields}
    \cup {[row EXCEPT !.optionValues =
              [k \in DOMAIN row.optionValues |->
                  IF k = 1 THEN v ELSE row.optionValues[k]]] :
            v \in IF row.optionValues = <<>> THEN {} ELSE Respelled(row.optionValues[1])}
    \cup {[h \in DOMAIN row |->
              IF h \in IdentityFields THEN <<" ">> \o [k \in DOMAIN row[h] |-> OtherCase(row[h][k])]
              ELSE IF h = "optionValues"
                   THEN [k \in DOMAIN row[h] |-> row[h][k] \o <<" ">>]
                   ELSE row[h]]}

\* the rows that differ from a row in what is no identifier
OtherwiseChanged(row) ==
    {[row EXCEPT !.quantity = row.quantity + 1],
     [row EXCEPT !.rowNumber = row.rowNumber + 1],
     [row EXCEPT !.binName = <<"z">> \o row.binName],
     [row EXCEPT !.shopifyLocationName = <<"z">> \o row.shopifyLocationName],
     [row EXCEPT !.calculationSource = ""]}

\* the row with one and with two option values
WithOptions(row) ==
    {[row EXCEPT !.optionValues = <<<<"S">>>>],
     [row EXCEPT !.optionValues = <<<<"R", "e", "d">>, <<"m">>>>]}

\* two rows whose identifiers and option values differ by letter case at most
SameIdentity(r, s) ==
    /\ \A f \in IdentityFields : SameButCase(r[f], s[f])
    /\ Len(r.optionValues) = Len(s.optionValues)
    /\ \A k \in DOMAIN r.optionValues : SameButCase(r.optionValues[k], s.optionValues[k])

\* C31: a row, as it was parsed (looked at once the parser returned) and
\* with option values, keeps its identity key when its identifiers or
\* option values are respelled in letter case or with blanks at their ends,
\* and when anything but its identifiers changes; two parsed rows whose
\* identifiers differ by case only have one key, fall in one group of the
\* deduplication when their locations differ by case only, so that at most
\* one row stands for them after it, and have one representative and one
\* resolution in the prefetch
IdentityKeyInsensitive ==
    /\ \A i \in (IF phase = "locations" THEN DOMAIN parsedRows ELSE {}) :
          /\ buildIdentifierKey(parsedRows[i]) \in Seq(STRING)
          /\ \A r \in RespelledRows(parsedRows[i]) \cup OtherwiseChanged(parsedRows[i]) :
                buildIdentifierKey(r) = buildIdentifierKey(parsedRows[i])
          /\ \A o \in WithOptions(parsedRows[i]) :
                /\ buildIdentifierKey(o) # buildIdentifierKey(parsedRows[i])
                /\ \A r \in RespelledRows(o) \cup OtherwiseChanged(o) :
                      buildIdentifierKey(r) = buildIdentifierKey(o)
    /\ \A i, j \in DOMAIN parsedRows :
          SameIdentity(parsedRows[i], parsedRows[j]) =>
             /\ buildIdentifierKey(parsedRows[i]) = buildIdentifierKey(parsedRows[j])
             /\ SameButCase(parsedRows[i].shopifyLocationName,
                            parsedRows[j].shopifyLocationName)
                => groupKeyOf(parsedRows[i]) = groupKeyOf(parsedRows[j])
    /\ \A i, j \in DOMAIN dedupedRows :
          (/\ SameIdentity(dedupedRows[i], dedupedRows[j])
           /\ SameButCase(dedupedRows[i].shopifyLocationName,
                          dedupedRows[j].shopifyLocationName)) => i = j
    /\ \A i, j \in DOMAIN uniqueRows :
          SameIdentity(uniqueRows[i], uniqueRows[j]) => i = j
    /\ \A i, j \in DOMAIN dedupedRows :
          (Processing /\ SameIdentity(dedupedRows[i], dedupedRows[j]))
          => variantOf(dedupedRows[i]) = variantOf(dedupedRows[j])

\* the rows x and X of a sheet were parsed as two rows of one identity, and
\* one row stands for them after the deduplication
IdentityKeyWitness ==
    /\ phase = "done"
    /\ \E i, j \in DOMAIN parsedRows :
          /\ parsedRows[i].sku = <<"x">>
          /\ parsedRows[j].sku = <<"X">>
          /\ parsedRows[i].shopifyLocationName = parsedRows[j].shopifyLocationName
    /\ Cardinality({i \in DOMAIN dedupedRows : SameButCase(dedupedRows[i].sku, <<"x">>)}) = 1

(***************************************************************************)
(* C32  The sku reported.                                                  *)
(***************************************************************************)
\* the variant of the shop with this inventory item
RemoteVariant(item) ==
    CHOOSE v \in Range(AllVariants(Catalog)) : v.inventoryItemId = item

\* the entries of updated, and the 'already matches' entries of skipped
SuccessEntries ==
    Range(summary.updated)
    \cup {e \in Range(summary.skipped) :
             e.reason = Message("Inventory already matches target quantity")}

\* the deduplicated rows an entry reports
RowsReported(e) == {i \in DOMAIN dedupedRows : dedupedRows[i].rowNumber = e.rowNumber}

\* C32: every entry of updated and every 'already matches' entry of skipped
\* reports one deduplicated row, with the row's own sku when the row has one
\* and with the sku of the variant of the shop it was resolved to otherwise
ReportedSkuPreference ==
    \A e \in SuccessEntries :
        /\ Cardinality(RowsReported(e)) = 1
        /\ \A i \in RowsReported(e) :
              /\ variantOf(dedupedRows[i]).found
              /\ e.sku = IF dedupedRows[i].sku # <<>> THEN dedupedRows[i].sku
                         ELSE RemoteVariant(variantOf(dedupedRows[i]).inventoryItemId).sku

\* a run that returned reports the row X, resolved to the variant x, as X, and
\* a row without a sku, resolved by its barcode to the variant x, as x
ReportedSkuWitness ==
    /\ phase = "done"
    /\ \E e \in SuccessEntries :
          /\ e.sku = <<"X">>
          /\ \A i \in RowsReported(e) :
                RemoteVariant(variantOf(dedupedRows[i]).inventoryItemId).sku = <<"x">>
    /\ \E e \in SuccessEntries :
          /\ e.sku = <<"x">>
          /\ \A i \in RowsReported(e) : dedupedRows[i].sku = <<>>

(***************************************************************************)
(* C33  An upload without a valid row.                                     *)
(***************************************************************************)
\* the parser finds no valid row in the upload
NoValidRows == parseWorkbook(sheetNames, file).parsedRows = <<>>

\* no remote call was issued and the shop is as it was
NoRemoteTraffic ==
    /\ phase \notin {"locations", "prefetch", "process", "aborted"}
    /\ locations = <<>>
    /\ resolveCalls = <<>>
    /\ lookupCalls = <<>>
    /\ rowCalls = <<>>
    /\ setCalls = {}
    /\ faults = 0
    /\ shop = refShop

\* C33: an upload without a valid row issues no remote call, and once
\* processUpload has returned, updated and failed are empty and skipped
\* holds the skip records of the parser and nothing else: one record per
\* row of the sheet, in sheet order, or the one record 'Workbook has no
\* sheets' with row number 0 and quantity 0 when the workbook has no sheet
NoValidRowsNoTraffic ==
    NoValidRows =>
        /\ NoRemoteTraffic
        /\ phase = "done" =>
              /\ summary.updated = <<>>
              /\ summary.failed = <<>>
              /\ summary.skipped = parseWorkbook(sheetNames, file).skippedRows
              /\ IF sheetNames = 0
                 THEN /\ Len(summary.skipped) = 1
                      /\ summary.skipped[1].rowNumber = 0
                      /\ summary.skipped[1].quantity = 0
                      /\ summary.skipped[1].sku = <<>>
                      /\ summary.skipped[1].reason = Message("Workbook has no sheets")
                 ELSE /\ Len(summary.skipped) = Len(file)
                      /\ \A k \in DOMAIN file : summary.skipped[k].rowNumber = k + 1

\* the upload of a sheet of two rows, one without identifiers and one without
\* a quantity, has returned with the two rows skipped
NoValidRowsWitness ==
    /\ phase = "done"
    /\ sheetNames = 1
    /\ Len(file) = 2
    /\ NoValidRows
    /\ Len(summary.skipped) = 2
    /\ summary.skipped[1].reason # summary.skipped[2].reason

(***************************************************************************)
(* C34  The barrier after the prefetch.                                    *)
(***************************************************************************)
\* a row is being processed or was processed
RowsProcessed == phase = "process" \/ \E i \in DOMAIN rowState : RowStarted(i)

\* the locations list and the variant cache are populated: the list is what
\* the shop lists, the cache has the resolution of every deduplicated row
Populated ==
    /\ locations = shopLocations
    /\ \A i \in DOMAIN lookupStage : LookupSettled(i)
    /\ \A i \in DOMAIN dedupedRows :
          buildIdentifierKey(dedupedRows[i]) \in DOMAIN variantByIdentifier

\* getLocations is called by the step that leaves the idle state and by no
\* other, and the run never is idle again; the list is written by the step
\* that ends this call and by no other
LocationsFetchedOnce ==
    /\ phase' = "locations" => phase = "idle"
    /\ phase # "idle" => phase' # "idle"
    /\ locations' # locations => (phase = "locations" /\ phase' # "locations")

\* while rows are processed and after, the list and the cache are not written
ReadOnlyAfterBarrier ==
    RowsProcessed =>
        /\ locations' = locations
        /\ variantByIdentifier' = variantByIdentifier
        /\ lookupStage' = lookupStage
        /\ lookupCalls' = lookupCalls
        /\ resolveCalls' = resolveCalls

\* C34: the locations are fetched once in a run; when a row is processed the
\* locations list and the variant cache are fully populated, and from the
\* first row processed on neither is written
PrefetchBarrier ==
    /\ [](RowsProcessed => Populated)
    /\ [][LocationsFetchedOnce /\ ReadOnlyAfterBarrier]_vars

\* two rows of a batch await their remote calls with the list of two
\* locations and a cache of two resolutions, each made by a lookup
PrefetchBarrierWitness ==
    /\ phase = "process"
    /\ Cardinality(RowsInFlight) = 2
    /\ Len(locations) = 2
    /\ Cardinality(DOMAIN variantByIdentifier) = 2
    /\ \A i \in DOMAIN lookupCalls : lookupCalls[i] # <<>>

(***************************************************************************)
(* C35  The rows of a batch.                                               *)
(***************************************************************************)
\* C35 as stated, at the return of the run: the shop holds the target
\* quantity of every updated row at the item and location of the row,
\* whatever the order in which the rows of a batch completed their calls
UpdatedRowsHold ==
    phase = "done" =>
        \A c \in setCalls : c.ok => shop[<<c.inventoryItemId, c.locationId>>] = c.quantity

(***************************************************************************)
(* C36  The steps of a row.                                                *)
(***************************************************************************)
\* the sequences of remote calls of a row: the location query when the
\* location is not told by the file, the configuration or a single location,
\* then the read of the current quantity, then the set of the quantity
RowCallOrders ==
    {<<>>, <<"itemLocs">>, <<"itemLocs", "current">>, <<"itemLocs", "current", "set">>,
     <<"current">>, <<"current", "set">>}

\* the number of entries of the summary that report row i
TerminalEntries(i) ==
    Len(ReportsOf("updated", i)) + Len(ReportsOf("skipped", i)) + Len(ReportsOf("failed", i))

\* the steps of row i so far are in order
RowInOrder(i) ==
    /\ rowCalls[i] \in RowCallOrders
    /\ RowStarted(i) =>
          /\ \A j \in DOMAIN lookupStage : LookupSettled(j)
          /\ buildIdentifierKey(dedupedRows[i]) \in DOMAIN variantByIdentifier
    /\ ~RowStarted(i) => (rowCalls[i] = <<>> /\ TerminalEntries(i) = 0)
    /\ (RowStarted(i) /\ ~RowSettled(i)) =>
          /\ rowCalls[i] # <<>>
          /\ rowState[i].stage = rowCalls[i][Len(rowCalls[i])]
          /\ TerminalEntries(i) = 0
          /\ variantOf(dedupedRows[i]).found
          /\ rowState[i].stage \in {"current", "set"} => rowState[i].location # NoLocation
          /\ rowState[i].stage = "set" => rowState[i].current # dedupedRows[i].quantity
    /\ RowSettled(i) =>
          /\ TerminalEntries(i) = 1
          /\ ~variantOf(dedupedRows[i]).found =>
                (rowCalls[i] = <<>> /\ Len(ReportsOf("failed", i)) = 1)
          /\ Len(ReportsOf("updated", i)) = 1 =>
                (rowCalls[i] # <<>> /\ rowCalls[i][Len(rowCalls[i])] = "set")
    /\ \A c \in setCalls : c.rowNumber = dedupedRows[i].rowNumber => "set" \in Range(rowCalls[i])

\* a row that has ended stays as it ended, and a row that goes on issues one
\* call more
RowStepsOnce ==
    \A i \in DOMAIN rowState :
        /\ RowSettled(i) =>
              /\ rowState' = <<>> \/ rowState'[i] = rowState[i]
              /\ rowCalls' = <<>> \/ rowCalls'[i] = rowCalls[i]
              /\ EntriesOf(summary', "updated", dedupedRows[i].rowNumber) = ReportsOf("updated", i)
              /\ EntriesOf(summary', "skipped", dedupedRows[i].rowNumber) = ReportsOf("skipped", i)
              /\ EntriesOf(summary', "failed", dedupedRows[i].rowNumber) = ReportsOf("failed", i)
        /\ ~RowSettled(i) =>
              \/ rowCalls'[i] = rowCalls[i]
              \/ \E call \in {"itemLocs", "current", "set"} :
                    rowCalls'[i] = Append(rowCalls[i], call)

\* C36: the remote calls of a row are issued one at a time in the order
\* location query, read of the current quantity, set of the quantity, none
\* before the prefetch has settled, the read only with a location and the
\* set only after a read that differs from the target; a row without a
\* resolved variant fails without any of these calls; a row that has ended
\* is reported by exactly one entry of updated, skipped and failed, and
\* neither its state nor its entry changes afterwards
RowStateMachine ==
    /\ [](\A i \in DOMAIN rowState : RowInOrder(i))
    /\ [][RowStepsOnce]_vars

\* a run that returned after a row made the three calls in order and was
\* updated, and a row without a variant failed without a call
RowStateMachineWitness ==
    /\ phase = "done"
    /\ \E i, j \in DOMAIN rowState :
          /\ rowCalls[i] = <<"itemLocs", "current", "set">>
          /\ Len(ReportsOf("updated", i)) = 1
          /\ ~variantOf(dedupedRows[j]).found
          /\ rowCalls[j] = <<>>
          /\ Len(ReportsOf("failed", j)) = 1

(***************************************************************************)
(* C37  Rows that are alone in their group.                                *)
(***************************************************************************)
\* the parsed row at position i is the only one with its identity and its
\* location, letter case aside
SoleOfItsPair(i) ==
    \A j \in DOMAIN parsedRows \ {i} :
        ~(/\ SameIdentity(parsedRows[i], parsedRows[j])
          /\ SameButCase(parsedRows[i].shopifyLocationName,
                         parsedRows[j].shopifyLocationName))

\* the parsed row at position i is passed on as it is, once, and the
\* deduplication has made no entry for it
PassedOnUnchanged(i) ==
    /\ Cardinality({k \in DOMAIN dedupedRows : dedupedRows[k] = parsedRows[i]}) = 1
    /\ Cardinality({k \in DOMAIN dedupedRows :
                       dedupedRows[k].rowNumber = parsedRows[i].rowNumber}) = 1
    /\ phase = "locations" =>
          /\ EntriesOf(summary, "updated", parsedRows[i].rowNumber) = <<>>
          /\ EntriesOf(summary, "skipped", parsedRows[i].rowNumber) = <<>>
          /\ EntriesOf(summary, "failed", parsedRows[i].rowNumber) = <<>>

\* C37 as stated: once the deduplication has run, every parsed row that is
\* the only one with its identity key and location is among the rows passed
\* on, once and with every field as parsed, without an entry made for it by
\* the deduplication; and the parsed rows are as the parser returned them
SingletonPassesThrough ==
    Deduplicated =>
        /\ parsedRows = parseWorkbook(sheetNames, file).parsedRows
        /\ \A i \in DOMAIN parsedRows : SoleOfItsPair(i) => PassedOnUnchanged(i)

(***************************************************************************)
(* C38  The cache at the barrier.                                          *)
(***************************************************************************)
\* the entries of failed with the reason processRow falls back to
GenericFailures ==
    {e \in Range(summary.failed) : e.reason.msg = "Could not resolve variant in Shopify"}

\* C38: from the start of the row processing on, the variant cache has an
\* entry for the identity key of every deduplicated row, and every entry
\* without a variant has a reason; and at no time a row is in failed with
\* the reason 'Could not resolve variant in Shopify'
CacheComplete ==
    /\ RowsProcessed =>
          \A i \in DOMAIN dedupedRows :
              /\ buildIdentifierKey(dedupedRows[i]) \in DOMAIN variantByIdentifier
              /\ ~variantOf(dedupedRows[i]).found =>
                    /\ variantOf(dedupedRows[i]).reason.msg # ""
                    /\ RowSettled(i) =>
                          /\ Len(ReportsOf("failed", i)) = 1
                          /\ ReportsOf("failed", i)[1].reason = variantOf(dedupedRows[i]).reason
    /\ GenericFailures = {}

\* a run that returned after one row failed with the reason of a cascade that
\* matched no variant, one failed with the reason of a lookup that threw, and
\* one was resolved
CacheCompleteWitness ==
    /\ phase = "done"
    /\ \E i, j, k \in DOMAIN dedupedRows :
          /\ variantOf(dedupedRows[i]) = noMatchingVariant
          /\ Len(ReportsOf("failed", i)) = 1
          /\ variantOf(dedupedRows[j]).reason.msg = "Lookup error"
          /\ Len(ReportsOf("failed", j)) = 1
          /\ variantOf(dedupedRows[k]).found


\* ---------------------------------------------------------------------------
\* Run termination (processUpload, prefetchVariantsByIdentifier, withRetry)
\* ---------------------------------------------------------------------------

\* processUpload has returned its summary / its promise has rejected
RunReturned == phase = "done"
RunRejected == phase = "aborted"

\* withRetry has awaited its operation at most maxRetries + 1 times
RetryIssuesBounded == retry.issued <= retry.maxRetries + 1

\* a loop over batches moves from a batch to the next one only, and a loop
\* starts at its first batch
BatchesInTurn ==
    batchNo' # batchNo =>
       \/ phase' = phase /\ batchNo' = batchNo + 1
       \/ phase' # phase /\ batchNo' \in {0, 1}

\* a loop that has ended has visited its last batch
LoopsComplete ==
    /\ phase = "process" => batchNo <= chunkCount(Len(dedupedRows), batchSize)
    /\ phase = "prefetch" => batchNo <= chunkCount(Len(uniqueRows), batchSize)
    /\ (RunReturned /\ dedupedRows # <<>>) =>
          batchNo = chunkCount(Len(dedupedRows), batchSize)

\* every run, whose remote calls all return or fail, settles: processUpload
\* returns or rejects
RunSettles == <>(RunReturned \/ RunRejected)

\* C39: when every remote call eventually returns or fails, processUpload
\* eventually returns; withRetry awaits its operation at most maxRetries + 1
\* times, and the prefetch and processing loops visit every batch once, in turn
RunTermination ==
    /\ <>RunReturned
    /\ [](RetryIssuesBounded /\ LoopsComplete)
    /\ [][BatchesInTurn]_vars

\* the same without the return: the run settles, the retries are bounded and
\* the batches are visited once
RunTerminationOrRejection ==
    /\ RunSettles
    /\ [](RetryIssuesBounded /\ LoopsComplete)
    /\ [][BatchesInTurn]_vars

====
